---------------------------- MODULE Spec2Model ----------------------------
(***************************************************************************)
(* Track ingestion, map management and blob reconciliation of              *)
(* color-the-map (backend/services, backend/api/map_routes.py).            *)
(*                                                                         *)
(* The relational store is SQLite.  Every request has its own SQLAlchemy   *)
(* session, but the engine is created with poolclass=StaticPool: all       *)
(* sessions run their statements on the one SQLite connection.  There is   *)
(* therefore one open transaction: a statement of any session sees the     *)
(* uncommitted writes of all of them, a commit of any session makes all    *)
(* of them durable and a rollback of any session discards all of them.     *)
(* A step of the model is a stretch of a request handler between two       *)
(* awaits, ending with the statement the handler awaits, so that handlers  *)
(* of concurrent requests interleave where the event loop can switch       *)
(* coroutines.                                                             *)
(***************************************************************************)
EXTENDS Integers, Sequences, FiniteSets, TLC

(***************************************************************************)
(* Bounds of the model.                                                    *)
(***************************************************************************)
MaxMapId == 3
MaxTrackId == 2
MaxFiles == 1
ConcMaxMapId == 2
ConcMaxTrackId == 2
IsoMaxMapId == 3
IsoMaxTrackId == 2
EditMaxMapId == 2
EditMaxTrackId == 2
BatchMaxMapId == 1
BatchMaxTrackId == 3
BatchFiles == 3
MapsMaxMapId == 4
(* Refresh tokens are issued up to MaxTokens. *)
MaxTokens == 3
(* The clock ticks up to MaxNow; a refresh token lives                     *)
(* REFRESH_TOKEN_LIFETIME ticks.                                           *)
MaxNow == 3
(* download_database runs up to GeoMaxRuns times. *)
GeoMaxRuns == 2
REFRESH_TOKEN_LIFETIME == 2
ScopeMaxMapId == 3
FaultMaxMapId == 2
NamesMaxMapId == 2
NameMaxLen == 2
ScopeMaxTrackId == 3
(* The documents that are hashed have up to HashMaxLen characters, the     *)
(* tracks that are parsed up to PtsMax points.                             *)
HashMaxLen == 5
PtsMax == 4
InferMaxWords == 2

Users == {"u1", "u2"}

(* r1 and r2 are concurrent requests; "seq" and "multi" are callers that   *)
(* issue one request at a time and keep its answer.                        *)
Reqs == {"r1", "r2"}
SeqReq == "seq"
MultiReq == "multi"
(* Three more callers of that kind: "iso" acts for two users and uses      *)
(* every route, "edit" calls the track service with any update, "batch"    *)
(* uploads several files with one request.                                 *)
IsoReq == "iso"
EditReq == "edit"
BatchReq == "batch"
MapsReq == "maps"
TokReq == "tok"
(* A caller whose requests meet errors of the disk and of the database. *)
FaultReq == "fault"
(* A caller of two users that hides, deletes and reads tracks by id. *)
ScopeReq == "scope"
(* A caller that creates and renames maps with names of every kind. *)
NamesReq == "names"
(* Requests to /login and /refresh that overlap. *)
AuthReqs == {"a1", "a2"}
Slots == Reqs \cup {SeqReq, MultiReq, IsoReq, EditReq, BatchReq, MapsReq, TokReq,
                   FaultReq, ScopeReq, NamesReq} \cup AuthReqs
Sequential(r) ==
    r \in {SeqReq, MultiReq, IsoReq, EditReq, BatchReq, MapsReq, TokReq, FaultReq,
           ScopeReq, NamesReq}

(***************************************************************************)
(* Upload payloads.  A payload is a short text over "<", ">", " " and      *)
(* letters; a tag <p> stands for one <trkpt>, a tag <s> for an empty       *)
(* <trkseg>.  Gpx1Indented is Gpx1 re-indented.                            *)
(***************************************************************************)
Gpx1 == <<"<", "p", ">", "<", "p", ">">>
Gpx1Indented == <<" ", "<", "p", ">", " ", "<", "p", ">">>
Gpx2 == <<"<", "p", ">">>
GpxEmpty == <<"<", "s", ">">>
Contents == {Gpx1, Gpx1Indented, Gpx2, GpxEmpty}
(* A document that is not XML: its tag is not closed. *)
GpxBroken == <<"<", "p">>

(* A column that may hold NULL. *)
Null == [present |-> FALSE, val |-> <<>>]
Some(v) == [present |-> TRUE, val |-> v]

(* A filename is its stem, a text, and its suffix, as pathlib splits it. *)
FileA == [stem |-> <<"a">>, ext |-> ".gpx"]
FileB == [stem |-> <<"R", "u", "n">>, ext |-> ".gpx"]
FileC == [stem |-> <<"c">>, ext |-> ".txt"]
Filenames == {FileA, FileB, FileC}

(* What the requests of each slot are drawn from. *)
UsersOf(r) == IF r \in {MultiReq, IsoReq, TokReq, ScopeReq} THEN Users ELSE {"u1"}
MapIdsOf(r) ==
    IF r \in Reqs THEN 1..ConcMaxMapId
    ELSE IF r = IsoReq THEN 1..IsoMaxMapId
    ELSE IF r = EditReq THEN 1..EditMaxMapId
    ELSE IF r = BatchReq THEN 1..BatchMaxMapId
    ELSE IF r = FaultReq THEN 1..FaultMaxMapId
    ELSE IF r = NamesReq THEN 1..NamesMaxMapId
    ELSE IF r = MapsReq THEN 1..MapsMaxMapId
    ELSE IF r = ScopeReq THEN 1..ScopeMaxMapId
    ELSE 1..MaxMapId
TrackIdsOf(r) ==
    IF r \in Reqs THEN 1..ConcMaxTrackId
    ELSE IF r = IsoReq THEN 1..IsoMaxTrackId
    ELSE IF r = EditReq THEN 1..EditMaxTrackId
    ELSE IF r \in {BatchReq, FaultReq} THEN 1..BatchMaxTrackId
    ELSE IF r = ScopeReq THEN 1..ScopeMaxTrackId
    ELSE 1..MaxTrackId
(* The lists of ids of a call; the caller "scope" names every id it can. *)
IdSetsOf(r) == IF r = ScopeReq THEN {TrackIdsOf(r)} ELSE SUBSET TrackIdsOf(r)
BatchSizesOf(r) == IF r \in {BatchReq, FaultReq} THEN 1..BatchFiles ELSE 1..MaxFiles
(* POST /maps creates a map that is not the default one; the caller of    *)
(* the service chooses.                                                    *)
FlagsOf(r) == IF r \in {SeqReq, MapsReq} THEN BOOLEAN ELSE {FALSE}
(* The name of a new map, as MapCreate has trimmed it. *)
MapName == <<"M", "a", "p">>
(* Field(..., min_length=1, max_length=100) *)
MIN_NAME_LENGTH == 1
MAX_NAME_LENGTH == 100
(* The names that "names" sends: every short text of spaces and letters,   *)
(* and long ones at the limit, with and without spaces around them.        *)
Xs(n) == [i \in 1..n |-> "x"]
RawNames ==
    UNION {[1..n -> {" ", "x"}] : n \in 0..NameMaxLen}
    \cup {Xs(MAX_NAME_LENGTH), Xs(MAX_NAME_LENGTH + 1),
          <<" ">> \o Xs(MAX_NAME_LENGTH),
          Xs(MAX_NAME_LENGTH - 1) \o <<" ">>,
          <<" ">> \o Xs(MAX_NAME_LENGTH - 1) \o <<" ">>}
NamesOf(r) == IF r = NamesReq THEN RawNames ELSE {MapName}
FilesOf(r) ==
    IF r = SeqReq THEN [filename : Filenames, content : Contents]
    ELSE IF r = MultiReq THEN [filename : {FileA}, content : {Gpx1, Gpx2}]
    ELSE IF r \in {IsoReq, ScopeReq} THEN [filename : {FileA}, content : {Gpx1}]
    ELSE IF r = EditReq THEN [filename : {FileB}, content : {Gpx1}]
    ELSE IF r = BatchReq
    THEN [filename : {FileA}, content : {Gpx1, Gpx1Indented, Gpx2, GpxEmpty, GpxBroken}]
         \cup {[filename |-> FileC, content |-> Gpx2]}
    ELSE IF r = FaultReq THEN [filename : {FileA}, content : {Gpx1, Gpx2}]
    ELSE [filename : {FileA}, content : {Gpx1, GpxEmpty}]

(* The updates of a request.  TrackUpdate and MapUpdate let through the    *)
(* fields they declare; a caller of the service passes any dictionary.     *)
NewName == <<"x">>
TrackUpdatesOf(r) ==
    IF r = EditReq
    THEN {[visible |-> FALSE],
          [name |-> NewName, hash |-> <<"<", "x", ">">>, user_id |-> "u2"],
          [activity_type |-> "Walking", map_id |-> EditMaxMapId, coordinates |-> <<>>],
          [filename |-> FileA, segment_speeds |-> Null, distance_meters |-> 0,
           color |-> "red"]}
    ELSE IF r = ScopeReq THEN {[visible |-> FALSE]}
    ELSE {[visible |-> TRUE]}
MapUpdatesOf(r) ==
    IF r = NamesReq THEN {[name |-> n] : n \in RawNames}
    ELSE {<<>>, [name |-> IF r = EditReq THEN NewName ELSE MapName]}

MAX_FILE_SIZE == 10 * 1024 * 1024

Max(S) == CHOOSE x \in S : \A y \in S : y <= x

IsSpace(c) == c = " "

RECURSIVE LStrip(_)
LStrip(s) == IF s # <<>> /\ IsSpace(Head(s)) THEN LStrip(Tail(s)) ELSE s

RECURSIVE RStrip(_)
RStrip(s) ==
    IF s # <<>> /\ IsSpace(s[Len(s)]) THEN RStrip(SubSeq(s, 1, Len(s) - 1)) ELSE s

(* re.sub(r">\s+<", "><", text): left to right, non-overlapping. *)
RECURSIVE SubInterTag(_)
SubInterTag(s) ==
    IF s = <<>> THEN <<>>
    ELSE LET rest == Tail(s)
             after == LStrip(rest)
         IN  IF Head(s) = ">" /\ after # rest /\ after # <<>> /\ Head(after) = "<"
             THEN <<">">> \o SubInterTag(after)
             ELSE <<Head(s)>> \o SubInterTag(rest)

_minify_gpx_untrimmed(content) == SubInterTag(content)

(* re.sub(r">\s+<", "><", text).strip() *)
_minify_gpx(content) == RStrip(LStrip(SubInterTag(content)))

calculate_hash_raw(content) == content

(* SHA-256 is taken to be collision free: a digest is written as the text  *)
(* it was computed from.                                                   *)
calculate_hash(content) == _minify_gpx(content)

Hashes == {calculate_hash(c) : c \in Contents}

(* GPXParser.parse: the decoded points; no point raises ValueError. *)
ParsePoints(content) == SelectSeq(content, LAMBDA c : c = "p")

Stem(filename) == filename.stem

SuffixText(ext) ==
    IF ext = ".gpx" THEN <<".", "g", "p", "x">>
    ELSE IF ext = ".txt" THEN <<".", "t", "x", "t">>
    ELSE <<>>

FullName(filename) == filename.stem \o SuffixText(filename.ext)

(***************************************************************************)
(* GPXParser                                                               *)
(***************************************************************************)
LowerChar(c) ==
    CASE c = "A" -> "a" [] c = "B" -> "b" [] c = "C" -> "c" [] c = "D" -> "d"
      [] c = "E" -> "e" [] c = "F" -> "f" [] c = "G" -> "g" [] c = "H" -> "h"
      [] c = "I" -> "i" [] c = "J" -> "j" [] c = "K" -> "k" [] c = "L" -> "l"
      [] c = "M" -> "m" [] c = "N" -> "n" [] c = "O" -> "o" [] c = "P" -> "p"
      [] c = "Q" -> "q" [] c = "R" -> "r" [] c = "S" -> "s" [] c = "T" -> "t"
      [] c = "U" -> "u" [] c = "V" -> "v" [] c = "W" -> "w" [] c = "X" -> "x"
      [] c = "Y" -> "y" [] c = "Z" -> "z"
      [] OTHER -> c

lower(text) == [i \in 1..Len(text) |-> LowerChar(text[i])]

(* pattern in filename_lower *)
Contains(text, pattern) ==
    \E i \in 0..(Len(text) - Len(pattern)) :
        SubSeq(text, i + 1, i + Len(pattern)) = pattern

Word(str) ==
    CASE str = "mountain bike" ->
           <<"m", "o", "u", "n", "t", "a", "i", "n", " ", "b", "i", "k", "e">>
      [] str = "mountain biking" ->
           <<"m", "o", "u", "n", "t", "a", "i", "n", " ", "b", "i", "k", "i", "n", "g">>
      [] str = "downhill skiing" ->
           <<"d", "o", "w", "n", "h", "i", "l", "l", " ", "s", "k", "i", "i", "n", "g">>
      [] str = "walk" -> <<"w", "a", "l", "k">>
      [] str = "walking" -> <<"w", "a", "l", "k", "i", "n", "g">>
      [] str = "run" -> <<"r", "u", "n">>
      [] str = "running" -> <<"r", "u", "n", "n", "i", "n", "g">>
      [] str = "cycl" -> <<"c", "y", "c", "l">>
      [] str = "bik" -> <<"b", "i", "k">>
      [] str = "mtb" -> <<"m", "t", "b">>
      [] str = "swim" -> <<"s", "w", "i", "m">>
      [] str = "swimming" -> <<"s", "w", "i", "m", "m", "i", "n", "g">>
      [] str = "multisport" -> <<"m", "u", "l", "t", "i", "s", "p", "o", "r", "t">>
      [] str = "triathlon" -> <<"t", "r", "i", "a", "t", "h", "l", "o", "n">>
      [] str = "other" -> <<"o", "t", "h", "e", "r">>

ACTIVITY_PATTERNS ==
    << [patterns |-> {"mountain bike", "mountain biking"}, activity_type |-> "Cycling"],
       [patterns |-> {"downhill skiing"}, activity_type |-> "Downhill Skiing"],
       [patterns |-> {"walk", "walking"}, activity_type |-> "Walking"],
       [patterns |-> {"run", "running"}, activity_type |-> "Running"],
       [patterns |-> {"cycl", "bik", "mtb"}, activity_type |-> "Cycling"],
       [patterns |-> {"swim", "swimming"}, activity_type |-> "Swimming"],
       [patterns |-> {"multisport", "triathlon"}, activity_type |-> "Multisport"],
       [patterns |-> {"other"}, activity_type |-> "Other"] >>

RuleMatches(k, filename_lower) ==
    \E pattern \in ACTIVITY_PATTERNS[k].patterns : Contains(filename_lower, Word(pattern))

infer_last_match(filename) ==
    LET filename_lower == lower(FullName(filename))
        hits == {k \in 1..Len(ACTIVITY_PATTERNS) : RuleMatches(k, filename_lower)}
    IN  IF hits = {} THEN "Unknown"
        ELSE ACTIVITY_PATTERNS[CHOOSE k \in hits : \A j \in hits : k >= j].activity_type

infer_activity_type(filename) ==
    LET filename_lower == lower(FullName(filename))
        hits == {k \in 1..Len(ACTIVITY_PATTERNS) : RuleMatches(k, filename_lower)}
    IN  IF hits = {} THEN "Unknown"
        ELSE ACTIVITY_PATTERNS[CHOOSE k \in hits : \A j \in hits : k <= j].activity_type

(* gpxpy.parse: the document is a run of tags, with white space between.  *)
RECURSIVE WellFormed(_)
WellFormed(s) ==
    \/ s = <<>>
    \/ IsSpace(Head(s)) /\ WellFormed(Tail(s))
    \/ /\ Len(s) >= 3
       /\ s[1] = "<" /\ s[2] \notin {"<", ">", " "} /\ s[3] = ">"
       /\ WellFormed(SubSeq(s, 4, Len(s)))

(* A track point is its longitude, on the equator, and its time in seconds *)
(* or NoTime.                                                              *)
NoTime == -1

(* The points of a payload: the k-th <p> lies at longitude k, without time. *)
TrackPoints(content) ==
    [k \in 1..Len(ParsePoints(content)) |-> [lon |-> k, time |-> NoTime]]

Abs(x) == IF x < 0 THEN 0 - x ELSE x

SumSeq(s) ==
    LET RECURSIVE Go(_)
        Go(k) == IF k = 0 THEN 0 ELSE s[k] + Go(k - 1)
    IN  Go(Len(s))

(* The great-circle distance of two points of the equator is proportional   *)
(* to the difference of their longitudes; distances are counted in units    *)
(* that make every quotient below a whole number.                           *)
DistanceOfDegree == 12

_calculate_segment_distances(coordinates) ==
    IF Len(coordinates) < 2 THEN <<>>
    ELSE [i \in 1..(Len(coordinates) - 1) |->
             DistanceOfDegree * Abs(coordinates[i + 1] - coordinates[i])]

_calculate_distance(coordinates) == SumSeq(_calculate_segment_distances(coordinates))

_calculate_duration(timestamps) ==
    IF Len(timestamps) < 2 THEN 0 ELSE timestamps[Len(timestamps)] - timestamps[1]

NoSpeed == [raised |-> FALSE, avg |-> 0, max |-> 0, min |-> 0, speeds |-> <<>>]

(* segment_speeds[valid_mask] raises IndexError when the mask, one entry   *)
(* per pair of timestamps, is not as long as the array of distances.       *)
_calculate_speed(coordinates, timestamps) ==
    IF Len(coordinates) < 2 \/ Len(timestamps) < 2 THEN NoSpeed
    ELSE LET segment_distances == _calculate_segment_distances(coordinates)
             segment_durations == [i \in 1..(Len(timestamps) - 1) |->
                                      timestamps[i + 1] - timestamps[i]]
             valid == {i \in 1..Len(segment_durations) : segment_durations[i] > 0}
         IN  IF valid = {} THEN NoSpeed
             ELSE IF Len(segment_durations) # Len(segment_distances)
             THEN [NoSpeed EXCEPT !.raised = TRUE]
             ELSE LET segment_speeds ==
                          [i \in 1..Len(segment_distances) |->
                              IF i \in valid
                              THEN segment_distances[i] \div segment_durations[i]
                              ELSE 0]
                      total_duration == SumSeq(segment_durations)
                  IN  [raised |-> FALSE,
                       avg |-> IF total_duration > 0
                               THEN SumSeq(segment_distances) \div total_duration
                               ELSE 0,
                       max |-> Max({segment_speeds[i] : i \in valid}),
                       min |-> 0 - Max({0 - segment_speeds[i] : i \in valid}),
                       speeds |-> segment_speeds]

(* GPXParser.parse on the decoded points; ok is FALSE when it raises. *)
parse(points) ==
    LET coordinates == [i \in 1..Len(points) |-> points[i].lon]
        timed == SelectSeq(points, LAMBDA pt : pt.time # NoTime)
        timestamps == [i \in 1..Len(timed) |-> timed[i].time]
        speed_stats == _calculate_speed(coordinates, timestamps)
    IN  [ok |-> coordinates # <<>> /\ ~speed_stats.raised,
         coordinates |-> coordinates,
         distance_meters |-> _calculate_distance(coordinates),
         duration_seconds |-> _calculate_duration(timestamps),
         avg_speed_ms |-> speed_stats.avg,
         max_speed_ms |-> speed_stats.max,
         min_speed_ms |-> speed_stats.min,
         segment_speeds |-> speed_stats.speeds]

ParseFailsUnlessPoints(content) == ~WellFormed(content)

(* except Exception as e: raise ValueError(f"Invalid GPX file: {e}") *)
ParseFails(content) == ~WellFormed(content) \/ ~parse(TrackPoints(content)).ok

(***************************************************************************)
(* The geometry stored with a track (TrackService.upload_track).           *)
(***************************************************************************)
reduced_coordinates_from_second(coordinates) ==
    [i \in 1..(Len(coordinates) \div 2) |-> coordinates[2 * i]]

(* gpx_data.coordinates[::2] *)
reduced_coordinates(coordinates) ==
    [i \in 1..((Len(coordinates) + 1) \div 2) |-> coordinates[2 * i - 1]]

Min(a, b) == IF a < b THEN a ELSE b

reduced_speeds_unpaired(speeds, coords) == IF speeds = <<>> THEN Null ELSE Some(speeds)

(* [(speeds[i] + speeds[i + 1]) / 2 for i in range(0, len(speeds) - 1, 2)] *)
(*     [: len(reduced_coordinates) - 1]                                    *)
reduced_speeds(speeds, coords) ==
    IF speeds = <<>> THEN Null
    ELSE LET pairs == [k \in 1..(Len(speeds) \div 2) |->
                          (speeds[2 * k - 1] + speeds[2 * k]) \div 2]
         IN  Some(SubSeq(pairs, 1, Min(Len(pairs), Len(coords) - 1)))


(***************************************************************************)
(* State.                                                                  *)
(*   maps, tracks    committed rows of the tables "maps" and "tracks"      *)
(*   wmaps, wtracks  the rows as the connection sees them: the committed   *)
(*                   rows and the writes of its open transaction           *)
(*   gpx_dir         the blob directory: key -> stored bytes, or NoBlob    *)
(*   req             each request slot: handler, position and locals       *)
(*   obs             the committed rows and the blobs as they were when    *)
(*                   the sequential caller issued its current call         *)
(*   refresh_tokens, wrefresh_tokens                                       *)
(*                   the table "refresh_tokens", committed and as the      *)
(*                   connection sees it                                    *)
(*   exchanged       how often each refresh token has been exchanged       *)
(*   revoked         the refresh tokens for which a revocation has returned *)
(*   now             the clock, datetime.now(timezone.utc), in ticks       *)
(*   geoip           the GeoIPService: where its calls stand, the files    *)
(*                   of its directory, and what its calls have done        *)
(*   calc            the input and the results of a caller of the pure     *)
(*                   functions (hashing, parsing, geometry reduction) and  *)
(*                   of the blob store                                     *)
(***************************************************************************)
VARIABLES maps, tracks, wmaps, wtracks, gpx_dir, req, obs,
          refresh_tokens, wrefresh_tokens, exchanged, calc, revoked, now, geoip

vars == <<maps, tracks, wmaps, wtracks, gpx_dir, req, obs,
          refresh_tokens, wrefresh_tokens, exchanged, calc, revoked, now, geoip>>
db == <<maps, tracks, wmaps, wtracks, refresh_tokens, wrefresh_tokens>>
hist == <<obs, exchanged, calc, revoked, now, geoip>>

NoBlob == <<"absent">>
NoHash == <<>>
NoCalc == [fn |-> "none"]
NoFile == [filename |-> [stem |-> <<>>, ext |-> ""], content |-> <<>>]

BlobKeys == Users \X Hashes


(* INTEGER PRIMARY KEY of SQLite: the largest id of the table plus one. *)
NextId(rows) == IF rows = {} THEN 1 ELSE Max({x.id : x \in rows}) + 1

(* An answer: the status, the detail of an HTTPException, and the body:   *)
(* the counts and lists of an upload, the count of a delete or a bulk      *)
(* update, the rows of a listing, of a geometry lookup or of an update.    *)
NoResp == [status |-> 0, detail |-> "", uploaded |-> 0, failed |-> 0,
           track_ids |-> <<>>, errors |-> <<>>, deleted |-> 0, updated |-> 0,
           rows |-> {}]

NoUpdates == <<>>

Idle == [kind |-> "none", pc |-> "idle", user |-> "", map_id |-> 0,
         name |-> <<>>, raw_name |-> <<>>, is_default |-> FALSE, nfiles |-> 0,
         nleft |-> 0,
         cur |-> NoFile, hash |-> NoHash,
         existing |-> 0, ids |-> {}, track_id |-> 0, updates |-> NoUpdates,
         cand |-> {}, todel |-> {}, new_id |-> 0,
         error |-> "", intx |-> FALSE, token |-> 0, resp |-> NoResp]

(* raise HTTPException(status_code=404, detail=...) *)
NotFound(q, detail) == [q EXCEPT !.pc = "done", !.resp.status = 404, !.resp.detail = detail]

Free(r) == req[r].pc \in {"idle", "done"}

(* The handler of r goes on as q; a concurrent request that has answered   *)
(* leaves its slot.                                                        *)
Put(r, q) ==
    req' = [req EXCEPT ![r] = IF q.pc = "done" /\ ~Sequential(r) THEN Idle ELSE q]

(***************************************************************************)
(* The connection shared by the sessions.                                  *)
(***************************************************************************)
(* await session.commit() *)
Commit ==
    /\ maps' = wmaps
    /\ tracks' = wtracks
    /\ refresh_tokens' = wrefresh_tokens
    /\ UNCHANGED <<wmaps, wtracks, wrefresh_tokens>>

(* await session.rollback(), also on the way out of get_async_session *)
Rollback ==
    /\ wmaps' = maps
    /\ wtracks' = tracks
    /\ wrefresh_tokens' = refresh_tokens
    /\ UNCHANGED <<maps, tracks, refresh_tokens>>

CommitSkipped == UNCHANGED db

(* delete_map, delete_tracks: await session.commit(), which comes before   *)
(* "for gpx_hash in result.hashes_to_delete"                               *)
CommitBeforeFiles == Commit

(* A statement leaves the map rows as ms and the track rows as ts. *)
Write(ms, ts) ==
    /\ wmaps' = ms
    /\ wtracks' = ts
    /\ UNCHANGED <<maps, tracks, refresh_tokens, wrefresh_tokens>>

(* A statement leaves the rows of refresh_tokens as rs. *)
WriteTokens(rs) ==
    /\ wrefresh_tokens' = rs
    /\ UNCHANGED <<maps, tracks, wmaps, wtracks, refresh_tokens>>

(* session.add(row); await session.commit(): the flush of the row and the  *)
(* commit of all that is pending.                                          *)
AddTokenAndCommit(row) ==
    /\ refresh_tokens' = wrefresh_tokens \cup {row}
    /\ wrefresh_tokens' = wrefresh_tokens \cup {row}
    /\ maps' = wmaps
    /\ tracks' = wtracks
    /\ UNCHANGED <<wmaps, wtracks>>

(* A sequential caller notes the state in which its call starts; start is  *)
(* the track rows at the start of the request, which for an upload is the  *)
(* start of the batch.                                                     *)
Snapshot == [maps |-> maps, tracks |-> tracks, gpx_dir |-> gpx_dir, start |-> tracks]

Observe(r) ==
    /\ obs' = IF Sequential(r) THEN Snapshot ELSE obs
    /\ UNCHANGED <<exchanged, calc, revoked, now, geoip>>

ObserveFile(r) ==
    /\ obs' = IF Sequential(r) THEN [Snapshot EXCEPT !.start = obs.start] ELSE obs
    /\ UNCHANGED <<exchanged, calc, revoked, now, geoip>>

(***************************************************************************)
(* MapService                                                              *)
(***************************************************************************)
get_map_of_anyone(ms, map_id, user_id) == {m \in ms : m.id = map_id}

(* select(MapModel).where(id == map_id, user_id == user_id) *)
get_map(ms, map_id, user_id) == {m \in ms : m.id = map_id /\ m.user_id = user_id}

_unset_no_defaults(ms, user_id) == ms

(* update(MapModel).where(user_id == user_id, is_default == True)          *)
(*     .values(is_default=False)                                           *)
_unset_other_defaults(ms, user_id) ==
    {IF m.user_id = user_id THEN [m EXCEPT !.is_default = FALSE] ELSE m : m \in ms}

NewMap(ms, name, user_id, is_default) ==
    [id |-> NextId(ms), user_id |-> user_id, name |-> name, is_default |-> is_default]

MapCount(ms, user_id) == Cardinality({m \in ms : m.user_id = user_id})

IsLastMapStrict(map_count) == map_count < 1

(* if map_count <= 1: return MapDeleteResult(deleted=False, error=...) *)
IsLastMap(map_count) == map_count <= 1

HashesOfMap(ts, map_id, user_id) ==
    {t.hash : t \in {x \in ts : x.map_id = map_id /\ x.user_id = user_id}}

DeleteTracksOfUser(ts, map_id, user_id) == {t \in ts : t.user_id # user_id}

DeleteTracksOfMap(ts, map_id, user_id) ==
    {t \in ts : ~(t.map_id = map_id /\ t.user_id = user_id)}

StillUsed(ts, user_id, candidate_hashes) ==
    {t.hash : t \in {x \in ts : x.user_id = user_id /\ x.hash \in candidate_hashes}}

HashesToDeleteAll(ts, user_id, candidate_hashes) == candidate_hashes

HashesToDelete(ts, user_id, candidate_hashes) ==
    {h \in candidate_hashes : h \notin StillUsed(ts, user_id, candidate_hashes)}

DeleteMapRow(ms, map_id, user_id) ==
    {m \in ms : ~(m.id = map_id /\ m.user_id = user_id)}

(***************************************************************************)
(* StorageService, keyed by (user_id, hash)                                *)
(***************************************************************************)
WriteAlways(dir, file_path, content) == [dir EXCEPT ![file_path] = content]

(* if not file_path.exists(): file_path.write_bytes(content) *)
WriteIfAbsent(dir, file_path, content) ==
    IF dir[file_path] = NoBlob THEN [dir EXCEPT ![file_path] = content] ELSE dir

(* file_path.read_bytes(), or None *)
ReadFile(dir, file_path) == dir[file_path]

store_gpx(dir, user_id, gpx_hash, content) ==
    WriteIfAbsent(dir, <<user_id, gpx_hash>>, content)

load_gpx(dir, user_id, gpx_hash) == ReadFile(dir, <<user_id, gpx_hash>>)

(* file_path.exists() *)
Exists(dir, file_path) == dir[file_path] # NoBlob

UnlinkNothing(dir, file_path) == dir

(* if file_path.exists(): file_path.unlink() *)
Unlink(dir, file_path) == [dir EXCEPT ![file_path] = NoBlob]

delete_gpx(dir, user_id, gpx_hash) == Unlink(dir, <<user_id, gpx_hash>>)

(* return True after the unlink, return False without one *)
delete_gpx_returns(dir, user_id, gpx_hash) == Exists(dir, <<user_id, gpx_hash>>)

DeleteBlobsOfAnyUser(dir, user_id, hashes) ==
    [k \in BlobKeys |-> IF k[2] \in hashes THEN NoBlob ELSE dir[k]]

(* for gpx_hash in result.hashes_to_delete: storage.delete_gpx(user_id, gpx_hash) *)
DeleteBlobs(dir, user_id, hashes) ==
    [k \in BlobKeys |->
        IF k[1] = user_id /\ k[2] \in hashes THEN NoBlob ELSE dir[k]]

(***************************************************************************)
(* POST /maps                                                              *)
(***************************************************************************)
Finish(r, status) ==
    [req[r] EXCEPT !.pc = "done", !.resp.status = status]

(* The body of the request is validated before the handler is called; a    *)
(* body that is refused is answered 422.                                   *)
Unprocessable(q) ==
    [q EXCEPT !.pc = "done", !.resp.status = 422, !.resp.detail = "validation error"]

name_unstripped(v) == [ok |-> RStrip(LStrip(v)) # <<>>, name |-> v]

(* stripped = v.strip(); if not stripped: raise ValueError(...) *)
strip_and_validate_name(v) ==
    [ok |-> RStrip(LStrip(v)) # <<>>, name |-> RStrip(LStrip(v))]

(* MapCreate.name, and MapUpdate.name when it is given: the constraints of *)
(* the Field are tested on the text as sent, then the validator runs.      *)
ValidatedName(v) ==
    IF Len(v) < MIN_NAME_LENGTH \/ Len(v) > MAX_NAME_LENGTH
    THEN [ok |-> FALSE, name |-> <<>>]
    ELSE strip_and_validate_name(v)

CreateMapBegin(r) ==
    /\ Free(r)
    /\ NextId(wmaps) \in MapIdsOf(r)
    /\ \E u \in UsersOf(r), d \in FlagsOf(r), raw \in NamesOf(r) :
         LET name == ValidatedName(raw).name
             q == [Idle EXCEPT !.kind = "create_map", !.user = u, !.is_default = d,
                               !.name = name, !.raw_name = raw]
             m == NewMap(wmaps, name, u, d)
         IN  IF ~ValidatedName(raw).ok
             THEN /\ Put(r, Unprocessable(q))
                  /\ UNCHANGED db
             ELSE IF d
             THEN /\ Write(_unset_other_defaults(wmaps, u), wtracks)
                  /\ Put(r, [q EXCEPT !.pc = "C_insert"])
             ELSE /\ Write(wmaps \cup {m}, wtracks)
                  /\ Put(r, [q EXCEPT !.pc = "C_commit",
                                                         !.new_id = m.id])
    /\ UNCHANGED gpx_dir
    /\ Observe(r)

CreateMapInsert(r) ==
    /\ req[r].pc = "C_insert"
    /\ LET m == NewMap(wmaps, req[r].name, req[r].user, req[r].is_default)
       IN  /\ Write(wmaps \cup {m}, wtracks)
           /\ req' = [req EXCEPT ![r].pc = "C_commit", ![r].new_id = m.id]
    /\ UNCHANGED gpx_dir
    /\ UNCHANGED hist

CreateMapCommit(r) ==
    /\ req[r].pc = "C_commit"
    /\ Commit
    /\ Put(r, Finish(r, 201))
    /\ UNCHANGED gpx_dir
    /\ UNCHANGED hist

(***************************************************************************)
(* MapService.ensure_default_map, called on its own; its caller commits.   *)
(***************************************************************************)
MyMap == <<"M", "y", " ", "M", "a", "p">>

any_map_of(ms, user_id) == {m \in ms : m.user_id = user_id}

(* select(MapModel).where(user_id == user_id, is_default == True) *)
default_map_of(ms, user_id) == {m \in ms : m.user_id = user_id /\ m.is_default}

(* The select.  scalar_one_or_none raises MultipleResultsFound for more    *)
(* than one row; one row is returned; for none create_map("My Map",        *)
(* is_default=True) goes on with CreateMapInsert and the caller's commit.  *)
EnsureDefaultBegin(r) ==
    /\ Free(r)
    /\ \E u \in UsersOf(r) :
         LET q == [Idle EXCEPT !.kind = "ensure_default_map", !.user = u]
             found == default_map_of(wmaps, u)
         IN  IF Cardinality(found) > 1
             THEN /\ Put(r, [q EXCEPT !.pc = "done", !.resp.status = 500])
                  /\ Rollback
             ELSE IF found # {}
             THEN /\ Put(r, [q EXCEPT !.pc = "done", !.resp.status = 200,
                                      !.resp.rows = found])
                  /\ Rollback
             ELSE /\ Put(r, [q EXCEPT !.pc = "E_create"])
                  /\ UNCHANGED db
    /\ UNCHANGED gpx_dir
    /\ Observe(r)

(* create_map: if is_default: await self._unset_other_defaults(...) *)
EnsureDefaultCreate(r) ==
    /\ req[r].pc = "E_create"
    /\ NextId(wmaps) \in MapIdsOf(r)
    /\ Write(_unset_other_defaults(wmaps, req[r].user), wtracks)
    /\ req' = [req EXCEPT ![r].pc = "C_insert", ![r].name = MyMap,
                          ![r].is_default = TRUE]
    /\ UNCHANGED gpx_dir
    /\ UNCHANGED hist

(***************************************************************************)
(* POST /login and POST /refresh.  The refresh tokens are numbered in the  *)
(* order in which secrets.token_urlsafe has made them; a token expires     *)
(* REFRESH_TOKEN_LIFETIME ticks of the clock after it was made.            *)
(* exchanged[t] counts the requests to /refresh that have answered 200     *)
(* for the token t.                                                        *)
(***************************************************************************)
(* RefreshToken.hash_token: SHA-256, taken to be collision free *)
hash_token(token) == <<"sha256", token>>

NewToken == Len(exchanged) + 1

(* The tokens made so far; a string that is no token yet revokes none. *)
Issued == 1..Len(exchanged)

(* Every request under way issues one token at most. *)
Issuing == Cardinality({a \in AuthReqs : ~Free(a)})

Unauthorized(q, detail) == [q EXCEPT !.pc = "done", !.resp.status = 401, !.resp.detail = detail]

verify_not_before(rows, token) ==
    {row.user_id : row \in {x \in rows : /\ x.token_hash = hash_token(token)
                                          /\ x.expires_at >= now}}

(* select(RefreshToken).where(token_hash == hash_token(token),             *)
(*                            expires_at > datetime.now(timezone.utc))     *)
verify_refresh_token(rows, token) ==
    {row.user_id : row \in {x \in rows : /\ x.token_hash = hash_token(token)
                                          /\ x.expires_at > now}}

revoke_no_token(rows, token) == rows

(* delete(RefreshToken).where(token_hash == hash_token(token)) *)
revoke_token(rows, token) == {x \in rows : x.token_hash # hash_token(token)}

(* login: the select of the user and the check of the password *)
LoginBegin(r) ==
    /\ Free(r)
    /\ Len(exchanged) + Issuing < MaxTokens
    /\ \E u \in UsersOf(r), password_ok \in BOOLEAN :
         LET q == [Idle EXCEPT !.kind = "login", !.user = u]
         IN  IF ~password_ok
             THEN /\ Put(r, Unauthorized(q, "Incorrect email or password"))
                  /\ Rollback
             ELSE /\ Put(r, [q EXCEPT !.pc = "A_issue"])
                  /\ UNCHANGED db
    /\ UNCHANGED <<gpx_dir, hist>>

(* create_refresh_token: a new token, its row added and committed *)
IssueToken(r, next) ==
    /\ AddTokenAndCommit([token_hash |-> hash_token(NewToken), user_id |-> req[r].user,
                          expires_at |-> now + REFRESH_TOKEN_LIFETIME])
    /\ req' = [req EXCEPT ![r].pc = next, ![r].new_id = NewToken]
    /\ exchanged' = Append(exchanged, 0)
    /\ UNCHANGED <<gpx_dir, obs, calc, revoked, now, geoip>>

LoginIssue(r) ==
    /\ req[r].pc = "A_issue"
    /\ IssueToken(r, "A_commit")

LoginCommit(r) ==
    /\ req[r].pc = "A_commit"
    /\ Commit
    /\ Put(r, Finish(r, 200))
    /\ UNCHANGED <<gpx_dir, hist>>

(* refresh: verify_refresh_token *)
RefreshBegin(r) ==
    /\ Free(r)
    /\ Len(exchanged) + Issuing < MaxTokens
    /\ \E token \in 1..MaxTokens :
         LET q == [Idle EXCEPT !.kind = "refresh", !.token = token]
             user_id == verify_refresh_token(wrefresh_tokens, token)
         IN  IF user_id = {}
             THEN /\ Put(r, Unauthorized(q, "Invalid or expired refresh token"))
                  /\ Rollback
             ELSE /\ Put(r, [q EXCEPT !.pc = "R_user",
                                      !.user = CHOOSE u \in user_id : TRUE])
                  /\ UNCHANGED db
    /\ UNCHANGED <<gpx_dir, hist>>

(* select(User).where(User.id == user_id, User.is_active.is_(True)) *)
RefreshUser(r) ==
    /\ req[r].pc = "R_user"
    /\ req' = [req EXCEPT ![r].pc = "R_revoke"]
    /\ UNCHANGED <<db, gpx_dir, hist>>

(* revoke_token: the DELETE *)
RefreshRevoke(r) ==
    /\ req[r].pc = "R_revoke"
    /\ WriteTokens(revoke_token(wrefresh_tokens, req[r].token))
    /\ req' = [req EXCEPT ![r].pc = "R_revoked"]
    /\ UNCHANGED <<gpx_dir, hist>>

(* revoke_token: await self.session.commit() *)
RefreshRevokeCommit(r) ==
    /\ req[r].pc = "R_revoked"
    /\ Commit
    /\ req' = [req EXCEPT ![r].pc = "R_issue"]
    /\ revoked' = revoked \cup {req[r].token}
    /\ UNCHANGED <<gpx_dir, obs, exchanged, calc, now, geoip>>

RefreshIssue(r) ==
    /\ req[r].pc = "R_issue"
    /\ IssueToken(r, "R_commit")

(* await session.commit(); return TokenResponse(...) *)
RefreshCommit(r) ==
    /\ req[r].pc = "R_commit"
    /\ Commit
    /\ Put(r, Finish(r, 200))
    /\ exchanged' = [exchanged EXCEPT ![req[r].token] = @ + 1]
    /\ UNCHANGED <<gpx_dir, obs, calc, revoked, now, geoip>>

(***************************************************************************)
(* POST /logout, RefreshTokenManager.revoke_all_user_tokens and            *)
(* verify_refresh_token called on their own.                               *)
(***************************************************************************)
(* The tokens of which rows holds a row of the user. *)
TokensOf(rows, user_id) ==
    {t \in 1..MaxTokens :
        \E x \in rows : x.token_hash = hash_token(t) /\ x.user_id = user_id}

(* delete(RefreshToken).where(user_id == user_id) *)
revoke_all_user_tokens(rows, user_id) == {x \in rows : x.user_id # user_id}

(* logout: revoke_token, the DELETE *)
LogoutBegin(r) ==
    /\ Free(r)
    /\ \E u \in UsersOf(r), token \in 1..MaxTokens :
         /\ Put(r, [Idle EXCEPT !.kind = "logout", !.user = u, !.token = token,
                                !.pc = "O_revoked"])
         /\ WriteTokens(revoke_token(wrefresh_tokens, token))
    /\ UNCHANGED <<gpx_dir, hist>>

(* logout: revoke_token, await self.session.commit() *)
LogoutRevokeCommit(r) ==
    /\ req[r].pc = "O_revoked"
    /\ Commit
    /\ req' = [req EXCEPT ![r].pc = "O_commit"]
    /\ revoked' = revoked \cup ({req[r].token} \cap Issued)
    /\ UNCHANGED <<gpx_dir, obs, exchanged, calc, now, geoip>>

(* logout: await session.commit(); return {"message": ...} *)
LogoutCommit(r) ==
    /\ req[r].pc = "O_commit"
    /\ Commit
    /\ Put(r, Finish(r, 200))
    /\ UNCHANGED <<gpx_dir, hist>>

(* revoke_all_user_tokens: the DELETE; ids are the tokens it has met *)
RevokeAllBegin(r) ==
    /\ Free(r)
    /\ \E u \in UsersOf(r) :
         /\ Put(r, [Idle EXCEPT !.kind = "revoke_all_user_tokens", !.user = u,
                                !.ids = TokensOf(wrefresh_tokens, u),
                                !.pc = "V_revoked"])
         /\ WriteTokens(revoke_all_user_tokens(wrefresh_tokens, u))
    /\ UNCHANGED <<gpx_dir, hist>>

(* revoke_all_user_tokens: await self.session.commit() *)
RevokeAllCommit(r) ==
    /\ req[r].pc = "V_revoked"
    /\ Commit
    /\ Put(r, Finish(r, 200))
    /\ revoked' = revoked \cup req[r].ids
    /\ UNCHANGED <<gpx_dir, obs, exchanged, calc, now, geoip>>

(* verify_refresh_token; rows is the user id it returns, or nothing *)
VerifyToken(r) ==
    /\ Free(r)
    /\ \E token \in 1..MaxTokens :
         Put(r, [Idle EXCEPT !.kind = "verify_refresh_token", !.token = token,
                             !.pc = "done", !.resp.status = 200,
                             !.resp.rows = verify_refresh_token(wrefresh_tokens, token)])
    /\ Rollback
    /\ UNCHANGED <<gpx_dir, hist>>

(* delete(RefreshToken).where(expires_at <= datetime.now(timezone.utc)) *)
cleanup_expired_tokens(rows) == {x \in rows : ~(x.expires_at <= now)}

(* cleanup_expired_tokens: the DELETE *)
CleanupBegin(r) ==
    /\ Free(r)
    /\ Put(r, [Idle EXCEPT !.kind = "cleanup_expired_tokens", !.pc = "K_deleted"])
    /\ WriteTokens(cleanup_expired_tokens(wrefresh_tokens))
    /\ UNCHANGED <<gpx_dir, hist>>

(* cleanup_expired_tokens: await self.session.commit() *)
CleanupCommit(r) ==
    /\ req[r].pc = "K_deleted"
    /\ Commit
    /\ Put(r, Finish(r, 200))
    /\ UNCHANGED <<gpx_dir, hist>>

(* refresh: write_token or create_refresh_token raises; the exception      *)
(* leaves the handler and get_async_session rolls back what is pending.    *)
RefreshIssueFails(r) ==
    /\ req[r].pc = "R_issue"
    /\ Put(r, [req[r] EXCEPT !.pc = "done", !.resp.status = 500,
                             !.resp.detail = "Internal Server Error"])
    /\ Rollback
    /\ UNCHANGED <<gpx_dir, hist>>

(* Time passes. *)
Tick ==
    /\ now < MaxNow
    /\ now' = now + 1
    /\ UNCHANGED <<db, gpx_dir, req, obs, exchanged, calc, revoked, geoip>>

(***************************************************************************)
(* DELETE /maps/{map_id}                                                   *)
(***************************************************************************)
DeleteMapBegin(r) ==
    /\ Free(r)
    /\ \E u \in UsersOf(r), m \in MapIdsOf(r) :
         LET q == [Idle EXCEPT !.kind = "delete_map", !.user = u, !.map_id = m]
         IN  IF IsLastMap(MapCount(wmaps, u))
             THEN /\ Put(r, [q EXCEPT !.error = "Cannot delete the last map",
                                      !.pc = "done", !.resp.status = 400,
                                      !.resp.detail = "Cannot delete the last map"])
                  /\ Rollback
             ELSE /\ Put(r, [q EXCEPT !.pc = "M_select"])
                  /\ UNCHANGED db
    /\ UNCHANGED gpx_dir
    /\ Observe(r)

DeleteMapSelect(r) ==
    /\ req[r].pc = "M_select"
    /\ req' = [req EXCEPT ![r].pc = "M_deltracks",
                          ![r].cand = HashesOfMap(wtracks, req[r].map_id, req[r].user)]
    /\ UNCHANGED <<db, gpx_dir>>
    /\ UNCHANGED hist

DeleteMapTracks(r) ==
    /\ req[r].pc = "M_deltracks"
    /\ Write(wmaps, DeleteTracksOfMap(wtracks, req[r].map_id, req[r].user))
    /\ req' = [req EXCEPT ![r].pc = IF req[r].cand # {} THEN "M_still" ELSE "M_delmap"]
    /\ UNCHANGED gpx_dir
    /\ UNCHANGED hist

DeleteMapStillUsed(r) ==
    /\ req[r].pc = "M_still"
    /\ req' = [req EXCEPT ![r].pc = "M_delmap",
                          ![r].todel = HashesToDelete(wtracks, req[r].user, req[r].cand)]
    /\ UNCHANGED <<db, gpx_dir>>
    /\ UNCHANGED hist

DeleteMapRowStep(r) ==
    /\ req[r].pc = "M_delmap"
    /\ LET deleted == get_map(wmaps, req[r].map_id, req[r].user) # {}
       IN  /\ Write(DeleteMapRow(wmaps, req[r].map_id, req[r].user), wtracks)
           /\ req' = [req EXCEPT ![r].pc = IF deleted THEN "M_commit" ELSE "M_rollback",
                                 ![r].todel = IF deleted THEN req[r].todel ELSE {}]
    /\ UNCHANGED gpx_dir
    /\ UNCHANGED hist

DeleteMapNotFound(r) ==
    /\ req[r].pc = "M_rollback"
    /\ Rollback
    /\ Put(r, NotFound(req[r], "Map not found"))
    /\ UNCHANGED gpx_dir
    /\ UNCHANGED hist

DeleteMapCommit(r) ==
    /\ req[r].pc = "M_commit"
    /\ CommitBeforeFiles
    /\ req' = [req EXCEPT ![r].pc = "M_files"]
    /\ UNCHANGED gpx_dir
    /\ UNCHANGED hist

DeleteMapFiles(r) ==
    /\ req[r].pc = "M_files"
    /\ gpx_dir' = DeleteBlobs(gpx_dir, req[r].user, req[r].todel)
    /\ Put(r, [Finish(r, 200) EXCEPT !.resp.deleted = 1])
    /\ UNCHANGED db
    /\ UNCHANGED hist


(***************************************************************************)
(* TrackService                                                            *)
(***************************************************************************)
FindExistingInAnyMap(ts, gpx_hash, map_id) == {t \in ts : t.hash = gpx_hash}

(* select(TrackModel).where(hash == gpx_hash, map_id == map_id) *)
FindExisting(ts, gpx_hash, map_id) ==
    {t \in ts : t.hash = gpx_hash /\ t.map_id = map_id}

ExistingId(ts, gpx_hash, map_id) ==
    IF FindExisting(ts, gpx_hash, map_id) = {} THEN 0
    ELSE (CHOOSE t \in FindExisting(ts, gpx_hash, map_id) : TRUE).id

NewTrack(ts, filename, gpx_hash, map_id, user_id, gpx_data) ==
    [id |-> NextId(ts), user_id |-> user_id, map_id |-> map_id, hash |-> gpx_hash,
     name |-> Stem(filename), filename |-> filename,
     activity_type |-> infer_activity_type(filename),
     distance_meters |-> gpx_data.distance_meters,
     duration_seconds |-> gpx_data.duration_seconds,
     visible |-> TRUE,
     coordinates |-> reduced_coordinates(gpx_data.coordinates),
     segment_speeds |-> reduced_speeds(gpx_data.segment_speeds,
                                       reduced_coordinates(gpx_data.coordinates))]

(* idx_tracks_map_hash: UNIQUE (map_id, hash) *)
ViolatesUnique(ts, t) == \E x \in ts : x.map_id = t.map_id /\ x.hash = t.hash

MatchingTracksInAnyMap(ts, track_ids, map_id, user_id) ==
    {t \in ts : t.id \in track_ids /\ t.user_id = user_id}

(* where(id.in_(track_ids), map_id == map_id, user_id == user_id) *)
MatchingTracks(ts, track_ids, map_id, user_id) ==
    {t \in ts : t.id \in track_ids /\ t.map_id = map_id /\ t.user_id = user_id}

(***************************************************************************)
(* POST /maps/{map_id}/tracks                                              *)
(***************************************************************************)
Status(resp) == IF resp.uploaded > 0 THEN 201 ELSE IF resp.failed > 0 THEN 400 ELSE 200

(* The end of one iteration of "for file in files". *)
NextFile(q) ==
    IF q.nleft = 1
    THEN [q EXCEPT !.nleft = 0, !.pc = "done", !.resp.status = Status(q.resp)]
    ELSE [q EXCEPT !.nleft = q.nleft - 1, !.pc = "U_lookup", !.cur = NoFile,
                   !.hash = NoHash, !.existing = 0, !.new_id = 0]

FailedEndsBatch(q, filename, msg) ==
    [q EXCEPT !.nleft = 0, !.pc = "done", !.resp.status = 400,
              !.resp.failed = q.resp.failed + 1,
              !.resp.errors = Append(q.resp.errors, [filename |-> filename, msg |-> msg])]

(* failed += 1; errors.append(f"{file.filename}: ...") *)
Failed(q, filename, msg) ==
    NextFile([q EXCEPT !.resp.failed = q.resp.failed + 1,
                       !.resp.errors = Append(q.resp.errors,
                                              [filename |-> filename, msg |-> msg])])

(* except IntegrityError: rollback, failed += 1, "Unable to process file" *)
IntegrityErrorAnswer(q) == Failed(q, q.cur.filename, "Unable to process file")

DuplicateCountsAsUploaded(q) ==
    NextFile([q EXCEPT !.resp.uploaded = q.resp.uploaded + 1,
                       !.resp.track_ids = Append(q.resp.track_ids, q.existing)])

(* if result.duplicate: track_ids.append(result.track.id) *)
DuplicateAnswer(q) ==
    NextFile([q EXCEPT !.resp.track_ids = Append(q.resp.track_ids, q.existing)])

Uploading == {r \in Reqs : req[r].pc = "U_store"}

UploadBegin(r) ==
    /\ Free(r)
    /\ \E u \in UsersOf(r), m \in MapIdsOf(r), n \in BatchSizesOf(r) :
         LET q == [Idle EXCEPT !.kind = "upload", !.user = u, !.map_id = m]
         IN  IF get_map(wmaps, m, u) = {}
             THEN /\ Put(r, NotFound(q, "Map not found"))
                  /\ Rollback
             ELSE /\ Put(r, [q EXCEPT !.pc = "U_lookup", !.nfiles = n, !.nleft = n,
                                      !.intx = TRUE])
                  /\ UNCHANGED db
    /\ UNCHANGED gpx_dir
    /\ Observe(r)

(* The next file of the batch is read and looked up by its hash.  A file   *)
(* that is refused here runs no statement; when the request ends with its  *)
(* transaction still open, closing the session rolls back.                 *)
UploadLookup(r) ==
    /\ req[r].pc = "U_lookup"
    /\ NextId(tracks \cup wtracks) + Cardinality(Uploading) \in TrackIdsOf(r)
    /\ \E f \in FilesOf(r) :
         LET q == req[r]
             refused == IF f.filename.ext # ".gpx" THEN "Not a GPX file"
                        ELSE IF Len(f.content) > MAX_FILE_SIZE THEN "File too large"
                        ELSE ""
         IN  IF refused # ""
             THEN /\ Put(r, Failed(q, f.filename, refused))
                  /\ IF q.nleft = 1 /\ q.intx THEN Rollback ELSE UNCHANGED db
             ELSE /\ Put(r, [q EXCEPT !.pc = "U_store", !.cur = f, !.intx = TRUE,
                                !.hash = calculate_hash(f.content),
                                !.existing = ExistingId(wtracks, calculate_hash(f.content),
                                                        q.map_id)])
                  /\ UNCHANGED db
    /\ UNCHANGED gpx_dir
    /\ ObserveFile(r)

(* Back from the lookup.  A duplicate is answered and committed; a file    *)
(* that does not parse is rolled back; otherwise the blob is stored and    *)
(* the row is flushed, all before the next await.                          *)
UploadStore(r) ==
    /\ req[r].pc = "U_store"
    /\ LET q == [req[r] EXCEPT !.intx = FALSE]
           t == NewTrack(wtracks, q.cur.filename, q.hash, q.map_id, q.user,
                         parse(TrackPoints(q.cur.content)))
       IN  IF q.existing # 0
           THEN /\ Put(r, DuplicateAnswer(q))
                /\ Commit
                /\ UNCHANGED gpx_dir
           ELSE IF ParseFails(q.cur.content)
           THEN /\ Put(r, Failed(q, q.cur.filename, "Invalid GPX file"))
                /\ Rollback
                /\ UNCHANGED gpx_dir
           ELSE /\ gpx_dir' = store_gpx(gpx_dir, q.user, q.hash, q.cur.content)
                /\ IF ViolatesUnique(wtracks, t)
                   THEN /\ Put(r, IntegrityErrorAnswer(q))
                        /\ Rollback
                   ELSE /\ Put(r, [q EXCEPT !.pc = "U_commit", !.new_id = t.id,
                                           !.intx = TRUE])
                        /\ Write(wmaps, wtracks \cup {t})
    /\ UNCHANGED hist

UploadCommit(r) ==
    /\ req[r].pc = "U_commit"
    /\ Commit
    /\ LET q == [req[r] EXCEPT !.intx = FALSE]
       IN  Put(r,
               NextFile([q EXCEPT !.resp.uploaded = q.resp.uploaded + 1,
                                  !.resp.track_ids = Append(q.resp.track_ids, q.new_id)]))
    /\ UNCHANGED gpx_dir
    /\ UNCHANGED hist

(***************************************************************************)
(* POST /maps/{map_id}/tracks when a step that persists the file raises.   *)
(***************************************************************************)
NoRollbackOnError == UNCHANGED db

(* except Exception as e: await session.rollback() *)
RollbackOnError == Rollback

(* except Exception: failed += 1, "Unable to process file" *)
ExceptionAnswer(q) == Failed(q, q.cur.filename, "Unable to process file")

(* store_gpx raises OSError before it has written the blob. *)
UploadStoreFails(r) ==
    /\ req[r].pc = "U_store"
    /\ req[r].existing = 0
    /\ ~ParseFails(req[r].cur.content)
    /\ Put(r, ExceptionAnswer([req[r] EXCEPT !.intx = FALSE]))
    /\ RollbackOnError
    /\ UNCHANGED <<gpx_dir, hist>>

(* The blob is stored and session.flush() raises: the row is not inserted. *)
UploadFlushFails(r) ==
    /\ req[r].pc = "U_store"
    /\ req[r].existing = 0
    /\ ~ParseFails(req[r].cur.content)
    /\ gpx_dir' = store_gpx(gpx_dir, req[r].user, req[r].hash, req[r].cur.content)
    /\ Put(r, ExceptionAnswer([req[r] EXCEPT !.intx = FALSE]))
    /\ RollbackOnError
    /\ UNCHANGED hist

(* uploaded += 1; track_ids.append(...); session.commit() raises with the  *)
(* row pending: nothing is made durable.                                   *)
UploadCommitFails(r) ==
    /\ req[r].pc = "U_commit"
    /\ LET q == [req[r] EXCEPT !.intx = FALSE]
       IN  Put(r, ExceptionAnswer(
                      [q EXCEPT !.resp.uploaded = q.resp.uploaded + 1,
                                !.resp.track_ids = Append(q.resp.track_ids, q.new_id)]))
    /\ RollbackOnError
    /\ UNCHANGED <<gpx_dir, hist>>

(***************************************************************************)
(* DELETE /maps/{map_id}/tracks                                            *)
(***************************************************************************)
DeleteTracksBegin(r) ==
    /\ Free(r)
    /\ \E u \in UsersOf(r), m \in MapIdsOf(r) :
         LET q == [Idle EXCEPT !.kind = "delete_tracks", !.user = u, !.map_id = m]
         IN  IF get_map(wmaps, m, u) = {}
             THEN /\ Put(r, NotFound(q, "Map not found"))
                  /\ Rollback
             ELSE /\ Put(r, [q EXCEPT !.pc = "D_select"])
                  /\ UNCHANGED db
    /\ UNCHANGED gpx_dir
    /\ Observe(r)

DeleteTracksSelect(r) ==
    /\ req[r].pc = "D_select"
    /\ \E ids \in IdSetsOf(r) :
         IF ids = {}
         THEN /\ Put(r, Finish(r, 200))
              /\ Commit
         ELSE /\ Put(r, [req[r] EXCEPT !.pc = "D_delete", !.ids = ids,
                            !.cand = {t.hash : t \in MatchingTracks(wtracks, ids,
                                                     req[r].map_id, req[r].user)}])
              /\ UNCHANGED db
    /\ UNCHANGED gpx_dir
    /\ UNCHANGED hist

deleted_as_requested(gone, track_ids) == Cardinality(track_ids)

(* DeleteResult(deleted=cursor_result.rowcount, ...) *)
deleted_rowcount(gone, track_ids) == Cardinality(gone)

DeleteTracksDelete(r) ==
    /\ req[r].pc = "D_delete"
    /\ LET q == req[r]
           gone == MatchingTracks(wtracks, q.ids, q.map_id, q.user)
       IN  /\ Write(wmaps, wtracks \ gone)
           /\ req' = [req EXCEPT ![r].pc = IF q.cand # {} THEN "D_still" ELSE "D_commit",
                                 ![r].resp.deleted = deleted_rowcount(gone, q.ids)]
    /\ UNCHANGED gpx_dir
    /\ UNCHANGED hist

DeleteTracksStillUsed(r) ==
    /\ req[r].pc = "D_still"
    /\ req' = [req EXCEPT ![r].pc = "D_commit",
                          ![r].todel = HashesToDelete(wtracks, req[r].user, req[r].cand)]
    /\ UNCHANGED <<db, gpx_dir>>
    /\ UNCHANGED hist

DeleteTracksCommit(r) ==
    /\ req[r].pc = "D_commit"
    /\ CommitBeforeFiles
    /\ req' = [req EXCEPT ![r].pc = "D_files"]
    /\ UNCHANGED gpx_dir
    /\ UNCHANGED hist

DeleteTracksFiles(r) ==
    /\ req[r].pc = "D_files"
    /\ gpx_dir' = DeleteBlobs(gpx_dir, req[r].user, req[r].todel)
    /\ Put(r, Finish(r, 200))
    /\ UNCHANGED db
    /\ UNCHANGED hist

(***************************************************************************)
(* The deletes when file_path.unlink() raises for the blob of gpx_hash.    *)
(* The hashes before it in hashes_to_delete are processed, the exception   *)
(* leaves the handler and the request is answered 500.                     *)
(***************************************************************************)
(* The answer to a request whose handler has raised at gpx_hash. *)
UnlinkRaised(r, gpx_hash) ==
    [Finish(r, 500) EXCEPT !.error = "OSError", !.hash = gpx_hash, !.resp.deleted = 0]

DeleteTracksFilesFails(r) ==
    /\ req[r].pc = "D_files"
    /\ \E gpx_hash \in req[r].todel, before \in SUBSET req[r].todel :
         /\ gpx_hash \notin before
         /\ gpx_dir[<<req[r].user, gpx_hash>>] # NoBlob
         /\ gpx_dir' = DeleteBlobs(gpx_dir, req[r].user, before)
         /\ Put(r, UnlinkRaised(r, gpx_hash))
    /\ Rollback
    /\ UNCHANGED hist

DeleteMapFilesFails(r) ==
    /\ req[r].pc = "M_files"
    /\ \E gpx_hash \in req[r].todel, before \in SUBSET req[r].todel :
         /\ gpx_hash \notin before
         /\ gpx_dir[<<req[r].user, gpx_hash>>] # NoBlob
         /\ gpx_dir' = DeleteBlobs(gpx_dir, req[r].user, before)
         /\ Put(r, UnlinkRaised(r, gpx_hash))
    /\ Rollback
    /\ UNCHANGED hist

(***************************************************************************)
(* Updates (MapService.update_map, TrackService.update_track and           *)
(* update_tracks)                                                          *)
(***************************************************************************)
ALLOWED_UPDATE_FIELDS == {"visible", "name", "activity_type"}
MAP_ALLOWED_UPDATE_FIELDS == {"name"}

allowed_updates_all(updates, allowed) == updates

(* {key: value for key, value in updates.items() if key in allowed} *)
allowed_updates(updates, allowed) ==
    [key \in DOMAIN updates \cap allowed |-> updates[key]]

(* for key, value in allowed_updates.items(): setattr(model, key, value),  *)
(* and the SET clause of update_tracks                                     *)
setattrs(row, values) ==
    [f \in DOMAIN row |-> IF f \in DOMAIN values THEN values[f] ELSE row[f]]

(* where(id == track_id, map_id == map_id, user_id == user_id) *)
get_track(ts, track_id, map_id, user_id) ==
    {t \in ts : t.id = track_id /\ t.map_id = map_id /\ t.user_id = user_id}

TracksOfMap(ts, map_id, user_id) == {t \in ts : t.map_id = map_id /\ t.user_id = user_id}

(* TrackGeometryData of the rows that have coordinates *)
Geometries(rows) ==
    {[track_id |-> t.id, coordinates |-> t.coordinates,
      segment_speeds |-> t.segment_speeds] : t \in {x \in rows : x.coordinates # <<>>}}

(***************************************************************************)
(* GET /maps and PATCH /maps/{map_id}                                      *)
(***************************************************************************)
(* A request that ends without a commit gives its connection back, which   *)
(* rolls the open transaction back.                                        *)
ListMaps(r) ==
    /\ Free(r)
    /\ \E u \in UsersOf(r) :
         Put(r, [Idle EXCEPT !.kind = "list_maps", !.user = u, !.pc = "done",
                             !.resp.status = 200,
                             !.resp.rows = {m \in wmaps : m.user_id = u}])
    /\ Rollback
    /\ UNCHANGED gpx_dir
    /\ Observe(r)

UpdateMapBegin(r) ==
    /\ Free(r)
    /\ \E u \in UsersOf(r), m \in MapIdsOf(r), sent \in MapUpdatesOf(r) :
         LET named == "name" \in DOMAIN sent
             updates == IF named THEN [sent EXCEPT !.name = ValidatedName(sent.name).name]
                        ELSE sent
             q == [Idle EXCEPT !.kind = "update_map", !.user = u, !.map_id = m,
                               !.updates = updates,
                               !.raw_name = IF named THEN sent.name ELSE <<>>]
             found == get_map(wmaps, m, u)
         IN  IF named /\ ~ValidatedName(sent.name).ok
             THEN /\ Put(r, Unprocessable(q))
                  /\ UNCHANGED db
             ELSE IF found = {}
             THEN /\ Put(r, NotFound(q, "Map not found"))
                  /\ Rollback
             ELSE /\ Put(r, [q EXCEPT !.resp.rows = found,
                                      !.pc = IF DOMAIN allowed_updates(updates,
                                                   MAP_ALLOWED_UPDATE_FIELDS) = {}
                                             THEN "P_commit" ELSE "P_flush"])
                  /\ UNCHANGED db
    /\ UNCHANGED gpx_dir
    /\ Observe(r)

(* session.flush() writes the row that was loaded, session.refresh() reads *)
(* it back.                                                                *)
UpdateMapFlush(r) ==
    /\ req[r].pc = "P_flush"
    /\ LET q == req[r]
           values == allowed_updates(q.updates, MAP_ALLOWED_UPDATE_FIELDS)
           changed == {setattrs(m, values) : m \in q.resp.rows}
       IN  /\ Write({m \in wmaps : m.id # q.map_id} \cup changed, wtracks)
           /\ req' = [req EXCEPT ![r].pc = "P_commit", ![r].resp.rows = changed]
    /\ UNCHANGED gpx_dir
    /\ UNCHANGED hist

UpdateMapCommit(r) ==
    /\ req[r].pc = "P_commit"
    /\ Commit
    /\ Put(r, Finish(r, 200))
    /\ UNCHANGED gpx_dir
    /\ UNCHANGED hist

(***************************************************************************)
(* GET /maps/{map_id}/tracks and POST /maps/{map_id}/tracks/geometry       *)
(***************************************************************************)
ListTracksBegin(r) ==
    /\ Free(r)
    /\ \E u \in UsersOf(r), m \in MapIdsOf(r) :
         LET q == [Idle EXCEPT !.kind = "list_tracks", !.user = u, !.map_id = m]
         IN  IF get_map(wmaps, m, u) = {}
             THEN Put(r, NotFound(q, "Map not found"))
             ELSE Put(r, [q EXCEPT !.pc = "L_select"])
    /\ IF Free(r)' THEN Rollback ELSE UNCHANGED db
    /\ UNCHANGED gpx_dir
    /\ Observe(r)

ListTracksSelect(r) ==
    /\ req[r].pc = "L_select"
    /\ Put(r, [Finish(r, 200) EXCEPT
                 !.resp.rows = TracksOfMap(wtracks, req[r].map_id, req[r].user)])
    /\ Rollback
    /\ UNCHANGED gpx_dir
    /\ UNCHANGED hist

GeometryBegin(r) ==
    /\ Free(r)
    /\ \E u \in UsersOf(r), m \in MapIdsOf(r), ids \in IdSetsOf(r) :
         LET q == [Idle EXCEPT !.kind = "geometry", !.user = u, !.map_id = m,
                               !.ids = ids]
         IN  IF get_map(wmaps, m, u) = {}
             THEN Put(r, NotFound(q, "Map not found"))
             ELSE Put(r, [q EXCEPT !.pc = "G_select"])
    /\ IF Free(r)' THEN Rollback ELSE UNCHANGED db
    /\ UNCHANGED gpx_dir
    /\ Observe(r)

(* get_multiple_geometries: no statement for an empty list of ids *)
GeometrySelect(r) ==
    /\ req[r].pc = "G_select"
    /\ Put(r, [Finish(r, 200) EXCEPT
                 !.resp.rows = Geometries(MatchingTracks(wtracks, req[r].ids,
                                                         req[r].map_id, req[r].user))])
    /\ Rollback
    /\ UNCHANGED gpx_dir
    /\ UNCHANGED hist

(***************************************************************************)
(* PATCH /maps/{map_id}/tracks/bulk and PATCH /maps/{map_id}/tracks/{id}   *)
(***************************************************************************)
BulkUpdateBegin(r) ==
    /\ Free(r)
    /\ \E u \in UsersOf(r), m \in MapIdsOf(r), ids \in IdSetsOf(r),
          updates \in TrackUpdatesOf(r) :
         LET q == [Idle EXCEPT !.kind = "update_tracks", !.user = u, !.map_id = m,
                               !.ids = ids, !.updates = updates]
         IN  IF get_map(wmaps, m, u) = {}
             THEN /\ Put(r, NotFound(q, "Map not found"))
                  /\ Rollback
             ELSE /\ Put(r, [q EXCEPT !.pc = "B_update"])
                  /\ UNCHANGED db
    /\ UNCHANGED gpx_dir
    /\ Observe(r)

NothingToUpdateWithoutIds(track_ids, values) == track_ids = {}

(* if not track_ids: return 0 ... if not allowed_updates: return 0 *)
NothingToUpdate(track_ids, values) == track_ids = {} \/ DOMAIN values = {}

(* update_tracks: 0 without a statement when there is no id or no allowed  *)
(* field; else the rowcount of the UPDATE.                                 *)
BulkUpdateExec(r) ==
    /\ req[r].pc = "B_update"
    /\ LET q == req[r]
           values == allowed_updates(q.updates, ALLOWED_UPDATE_FIELDS)
           hit == MatchingTracks(wtracks, q.ids, q.map_id, q.user)
       IN  IF NothingToUpdate(q.ids, values)
           THEN /\ req' = [req EXCEPT ![r].pc = "B_commit", ![r].resp.updated = 0]
                /\ UNCHANGED db
           ELSE /\ req' = [req EXCEPT ![r].pc = "B_commit",
                                      ![r].resp.updated = Cardinality(hit)]
                /\ Write(wmaps, (wtracks \ hit) \cup {setattrs(t, values) : t \in hit})
    /\ UNCHANGED gpx_dir
    /\ UNCHANGED hist

BulkUpdateCommit(r) ==
    /\ req[r].pc = "B_commit"
    /\ Commit
    /\ Put(r, Finish(r, 200))
    /\ UNCHANGED gpx_dir
    /\ UNCHANGED hist

UpdateTrackBegin(r) ==
    /\ Free(r)
    /\ \E u \in UsersOf(r), m \in MapIdsOf(r), track_id \in TrackIdsOf(r),
          updates \in TrackUpdatesOf(r) :
         LET q == [Idle EXCEPT !.kind = "update_track", !.user = u, !.map_id = m,
                               !.track_id = track_id, !.updates = updates]
         IN  IF get_map(wmaps, m, u) = {}
             THEN /\ Put(r, NotFound(q, "Map not found"))
                  /\ Rollback
             ELSE /\ Put(r, [q EXCEPT !.pc = "T_select"])
                  /\ UNCHANGED db
    /\ UNCHANGED gpx_dir
    /\ Observe(r)

UpdateTrackSelect(r) ==
    /\ req[r].pc = "T_select"
    /\ LET q == req[r]
           found == get_track(wtracks, q.track_id, q.map_id, q.user)
       IN  IF found = {}
           THEN /\ Put(r, NotFound(q, "Track not found"))
                /\ Rollback
           ELSE /\ Put(r, [q EXCEPT !.pc = "T_flush", !.resp.rows = found])
                /\ UNCHANGED db
    /\ UNCHANGED gpx_dir
    /\ UNCHANGED hist

UpdateTrackFlush(r) ==
    /\ req[r].pc = "T_flush"
    /\ LET q == req[r]
           values == allowed_updates(q.updates, ALLOWED_UPDATE_FIELDS)
           changed == {setattrs(t, values) : t \in q.resp.rows}
       IN  /\ Write(wmaps, {t \in wtracks : t.id # q.track_id} \cup changed)
           /\ req' = [req EXCEPT ![r].pc = "T_commit", ![r].resp.rows = changed]
    /\ UNCHANGED gpx_dir
    /\ UNCHANGED hist

UpdateTrackCommit(r) ==
    /\ req[r].pc = "T_commit"
    /\ Commit
    /\ Put(r, Finish(r, 200))
    /\ UNCHANGED gpx_dir
    /\ UNCHANGED hist

(***************************************************************************)
(* The system                                                              *)
(***************************************************************************)
(***************************************************************************)
(* GeoIPService.  The files of the directory of db_path are the database,  *)
(* the temporary file of _extract_mmdb and the archive.  The database of   *)
(* the k-th response is <<"mmdb", k>>; a file of which the writing has     *)
(* failed holds <<"partial", k>>.                                          *)
(***************************************************************************)
MAX_RETRIES == 3
RETRY_DELAYS == <<1, 2, 4>>

Missing == <<"missing">>
DbPath == "GeoLite2-City.mmdb"
TarPath == "GeoLite2-City.tar.gz"

same_path(path, suffix) == path

(* Path.with_suffix: ".mmdb" is replaced with the suffix *)
with_suffix(path, suffix) ==
    IF path = "GeoLite2-City.mmdb" /\ suffix = ".mmdb.tmp"
    THEN "GeoLite2-City.mmdb.tmp"
    ELSE path

GeoPaths == {DbPath, TarPath, "GeoLite2-City.mmdb.tmp"}

GeoIdle ==
    [pc |-> "idle", call |-> "none", attempt |-> 0, outcomes |-> <<>>, sleeps |-> <<>>,
     result |-> "none", before |-> Missing, base |-> 0, archive |-> "none",
     raised |-> FALSE, runs |-> 0, serial |-> 0,
     files |-> [f \in GeoPaths |-> Missing]]

GeoUnchanged == UNCHANGED <<db, gpx_dir, req, obs, exchanged, calc, revoked, now>>

(* The state of a call of download_database at the head of its loop. *)
GeoStart(call) ==
    [geoip EXCEPT !.pc = "get", !.call = call, !.attempt = 0, !.outcomes = <<>>,
                  !.sleeps = <<>>, !.result = "none", !.before = geoip.files[DbPath],
                  !.base = geoip.serial, !.archive = "none", !.raised = FALSE,
                  !.runs = @ + 1]

(* initialize: download if db_path is missing, then _schedule_updates *)
Initialize ==
    /\ geoip.pc = "idle"
    /\ geoip' = IF geoip.files[DbPath] = Missing
                THEN GeoStart("initialize")
                ELSE [geoip EXCEPT !.pc = "done", !.call = "initialize",
                                   !.before = geoip.files[DbPath]]
    /\ GeoUnchanged

(* download_database, called by the weekly job *)
DownloadDatabase ==
    /\ geoip.pc \in {"idle", "done"}
    /\ geoip.runs < GeoMaxRuns
    /\ geoip' = GeoStart("download_database")
    /\ GeoUnchanged

(* client.get and response.raise_for_status: a response, which is the      *)
(* archive, an archive without a .mmdb member or no archive at all, or an  *)
(* exception                                                               *)
GeoGet ==
    /\ geoip.pc = "get"
    /\ \/ \E archive \in {"good", "no_mmdb", "corrupt"} :
            geoip' = [geoip EXCEPT !.pc = "write_tar", !.archive = archive,
                                   !.serial = @ + 1]
       \/ geoip' = [geoip EXCEPT !.pc = "except", !.raised = TRUE, !.serial = @ + 1]
    /\ GeoUnchanged

(* tar_path.write_bytes(response.content) *)
GeoWriteTar ==
    /\ geoip.pc = "write_tar"
    /\ \/ geoip' = [geoip EXCEPT !.pc = "open",
                                 !.files[TarPath] = <<"tar", geoip.serial>>]
       \/ \E left \in {geoip.files[TarPath], <<"partial", geoip.serial>>} :
            geoip' = [geoip EXCEPT !.pc = "finally", !.raised = TRUE,
                                   !.files[TarPath] = left]
    /\ GeoUnchanged

(* _extract_mmdb: tarfile.open, the search of the member, extractfile and  *)
(* mkdir                                                                   *)
GeoOpen ==
    /\ geoip.pc = "open"
    /\ \/ /\ geoip.archive = "good"
          /\ geoip' = [geoip EXCEPT !.pc = "write_tmp"]
       \/ geoip' = [geoip EXCEPT !.pc = "finally", !.raised = TRUE]
    /\ GeoUnchanged

(* _extract_mmdb: temp_path.write_bytes(mmdb_file.read()) *)
GeoWriteTemp ==
    /\ geoip.pc = "write_tmp"
    /\ LET temp_path == with_suffix(DbPath, ".mmdb.tmp")
       IN  \/ geoip' = [geoip EXCEPT !.pc = "replace",
                                     !.files[temp_path] = <<"mmdb", geoip.serial>>]
           \/ \E left \in {geoip.files[temp_path], <<"partial", geoip.serial>>} :
                geoip' = [geoip EXCEPT !.pc = "finally", !.raised = TRUE,
                                       !.files[temp_path] = left]
    /\ GeoUnchanged

(* _extract_mmdb: temp_path.replace(self.db_path), a rename *)
GeoReplace ==
    /\ geoip.pc = "replace"
    /\ LET temp_path == with_suffix(DbPath, ".mmdb.tmp")
           moved == [geoip.files EXCEPT ![temp_path] = Missing,
                                        ![DbPath] = geoip.files[temp_path]]
       IN  \/ geoip' = [geoip EXCEPT !.pc = "finally", !.files = moved]
           \/ geoip' = [geoip EXCEPT !.pc = "finally", !.raised = TRUE]
    /\ GeoUnchanged

(* finally: if tar_path.exists(): tar_path.unlink(); then return True, or  *)
(* the exception goes on to the except clause                              *)
GeoFinally ==
    /\ geoip.pc = "finally"
    /\ \/ geoip' = [geoip EXCEPT
                        !.files[TarPath] = Missing,
                        !.pc = IF geoip.raised THEN "except" ELSE "done",
                        !.result = IF geoip.raised THEN "none" ELSE "True",
                        !.outcomes = IF geoip.raised THEN @ ELSE Append(@, "ok")]
       \/ /\ geoip.files[TarPath] # Missing
          /\ geoip' = [geoip EXCEPT !.pc = "except", !.raised = TRUE]
    /\ GeoUnchanged

SleepsAfterEvery(attempt) == TRUE

(* if attempt < self.MAX_RETRIES - 1 *)
SleepsBeforeRetry(attempt) == attempt < MAX_RETRIES - 1

(* The loop goes on with the next attempt, or ends and False is returned. *)
GeoLoop(g) ==
    IF g.attempt + 1 < MAX_RETRIES
    THEN [g EXCEPT !.pc = "get", !.attempt = @ + 1, !.raised = FALSE,
                   !.archive = "none"]
    ELSE [g EXCEPT !.pc = "done", !.attempt = @ + 1, !.result = "False"]

(* except Exception: the failure is logged *)
GeoExcept ==
    /\ geoip.pc = "except"
    /\ LET g == [geoip EXCEPT !.outcomes = Append(@, "failed")]
       IN  geoip' = IF SleepsBeforeRetry(geoip.attempt)
                    THEN [g EXCEPT !.pc = "sleep"]
                    ELSE GeoLoop(g)
    /\ GeoUnchanged

(* await asyncio.sleep(delay), delay = RETRY_DELAYS[attempt] *)
GeoSleep ==
    /\ geoip.pc = "sleep"
    /\ geoip' = GeoLoop([geoip EXCEPT
                            !.sleeps = Append(@, RETRY_DELAYS[geoip.attempt + 1])])
    /\ GeoUnchanged

Init ==
    /\ maps = {}
    /\ tracks = {}
    /\ wmaps = {}
    /\ wtracks = {}
    /\ gpx_dir = [k \in BlobKeys |-> NoBlob]
    /\ req = [r \in Slots |-> Idle]
    /\ obs = [maps |-> {}, tracks |-> {}, gpx_dir |-> [k \in BlobKeys |-> NoBlob],
              start |-> {}]
    /\ refresh_tokens = {}
    /\ wrefresh_tokens = {}
    /\ exchanged = <<>>
    /\ revoked = {}
    /\ now = 0
    /\ geoip = GeoIdle
    /\ calc = NoCalc

(* The steps of the request handlers. *)
RouteStep(r) ==
    \/ CreateMapBegin(r)
    \/ CreateMapCommit(r)
    \/ DeleteMapBegin(r)
    \/ DeleteMapSelect(r)
    \/ DeleteMapTracks(r)
    \/ DeleteMapStillUsed(r)
    \/ DeleteMapRowStep(r)
    \/ DeleteMapNotFound(r)
    \/ DeleteMapCommit(r)
    \/ DeleteMapFiles(r)
    \/ UploadBegin(r)
    \/ UploadLookup(r)
    \/ UploadStore(r)
    \/ UploadCommit(r)
    \/ DeleteTracksBegin(r)
    \/ DeleteTracksSelect(r)
    \/ DeleteTracksDelete(r)
    \/ DeleteTracksStillUsed(r)
    \/ DeleteTracksCommit(r)
    \/ DeleteTracksFiles(r)

(* The same, and create_map(is_default=True) of the service. *)
Step(r) == RouteStep(r) \/ CreateMapInsert(r)

(* Concurrent requests of one user, interleaved at their awaits. *)
Next == \E r \in Reqs : RouteStep(r)

Spec == Init /\ [][Next]_vars

(* One caller, one request at a time: every call runs to its answer before *)
(* the next one starts.  obs keeps the state in which the call (for an     *)
(* upload: the current file of the batch) started.                         *)
NextSeq == Step(SeqReq)

SpecSeq == Init /\ [][NextSeq]_vars

(* The same for a caller that acts for two users. *)
NextUsers == RouteStep(MultiReq)

SpecUsers == Init /\ [][NextUsers]_vars

(* The steps of the handlers that list, look up and update. *)
ViewStep(r) ==
    \/ ListMaps(r)
    \/ UpdateMapBegin(r)
    \/ UpdateMapFlush(r)
    \/ UpdateMapCommit(r)
    \/ ListTracksBegin(r)
    \/ ListTracksSelect(r)
    \/ GeometryBegin(r)
    \/ GeometrySelect(r)
    \/ BulkUpdateBegin(r)
    \/ BulkUpdateExec(r)
    \/ BulkUpdateCommit(r)
    \/ UpdateTrackBegin(r)
    \/ UpdateTrackSelect(r)
    \/ UpdateTrackFlush(r)
    \/ UpdateTrackCommit(r)

(* A caller that creates and deletes maps, uploads tracks to them and asks *)
(* for its default map.                                                    *)
NextMaps ==
    \/ CreateMapBegin(MapsReq)
    \/ CreateMapInsert(MapsReq)
    \/ CreateMapCommit(MapsReq)
    \/ DeleteMapBegin(MapsReq)
    \/ DeleteMapSelect(MapsReq)
    \/ DeleteMapTracks(MapsReq)
    \/ DeleteMapStillUsed(MapsReq)
    \/ DeleteMapRowStep(MapsReq)
    \/ DeleteMapNotFound(MapsReq)
    \/ DeleteMapCommit(MapsReq)
    \/ DeleteMapFiles(MapsReq)
    \/ UploadBegin(MapsReq)
    \/ UploadLookup(MapsReq)
    \/ UploadStore(MapsReq)
    \/ UploadCommit(MapsReq)
    \/ EnsureDefaultBegin(MapsReq)
    \/ EnsureDefaultCreate(MapsReq)

SpecMaps == Init /\ [][NextMaps]_vars

(* Logins and refreshes that overlap. *)
AuthStep(r) ==
    \/ LoginBegin(r)
    \/ LoginIssue(r)
    \/ LoginCommit(r)
    \/ RefreshBegin(r)
    \/ RefreshUser(r)
    \/ RefreshRevoke(r)
    \/ RefreshRevokeCommit(r)
    \/ RefreshIssue(r)
    \/ RefreshCommit(r)

NextAuth == \E r \in AuthReqs : AuthStep(r)

SpecAuth == Init /\ [][NextAuth]_vars

(* One caller of two users that logs in, refreshes, logs out, revokes and  *)
(* verifies, one call at a time.                                           *)
NextTokens ==
    \/ AuthStep(TokReq)
    \/ LogoutBegin(TokReq)
    \/ LogoutRevokeCommit(TokReq)
    \/ LogoutCommit(TokReq)
    \/ RevokeAllBegin(TokReq)
    \/ RevokeAllCommit(TokReq)
    \/ VerifyToken(TokReq)

SpecTokens == Init /\ [][NextTokens]_vars

(* The same caller while time passes: tokens expire and are cleaned up,    *)
(* and the issue of a token may fail.                                      *)
NextExpiry ==
    \/ AuthStep(TokReq)
    \/ LogoutBegin(TokReq)
    \/ LogoutRevokeCommit(TokReq)
    \/ LogoutCommit(TokReq)
    \/ RevokeAllBegin(TokReq)
    \/ RevokeAllCommit(TokReq)
    \/ VerifyToken(TokReq)
    \/ CleanupBegin(TokReq)
    \/ CleanupCommit(TokReq)
    \/ RefreshIssueFails(TokReq)
    \/ Tick

SpecExpiry == Init /\ [][NextExpiry]_vars

(* The GeoIPService: db_path is missing or holds a database at the start.  *)
InitGeo ==
    /\ maps = {}
    /\ tracks = {}
    /\ wmaps = {}
    /\ wtracks = {}
    /\ gpx_dir = [k \in BlobKeys |-> NoBlob]
    /\ req = [r \in Slots |-> Idle]
    /\ obs = [maps |-> {}, tracks |-> {}, gpx_dir |-> [k \in BlobKeys |-> NoBlob],
              start |-> {}]
    /\ refresh_tokens = {}
    /\ wrefresh_tokens = {}
    /\ exchanged = <<>>
    /\ revoked = {}
    /\ now = 0
    /\ calc = NoCalc
    /\ geoip \in {[GeoIdle EXCEPT !.files[DbPath] = d] : d \in {Missing, <<"mmdb", 0>>}}

NextGeo ==
    \/ Initialize
    \/ DownloadDatabase
    \/ GeoGet
    \/ GeoWriteTar
    \/ GeoOpen
    \/ GeoWriteTemp
    \/ GeoReplace
    \/ GeoFinally
    \/ GeoExcept
    \/ GeoSleep

SpecGeo == InitGeo /\ [][NextGeo]_vars

(* A request that is sent is answered or times out (timeout=300.0), a      *)
(* sleep ends, and a call that has started goes on.                        *)
SpecGeoLive == SpecGeo /\ WF_vars(NextGeo)

(* A client that creates its map and uploads batches of files. *)
NextBatch ==
    \/ CreateMapBegin(BatchReq)
    \/ CreateMapCommit(BatchReq)
    \/ UploadBegin(BatchReq)
    \/ UploadLookup(BatchReq)
    \/ UploadStore(BatchReq)
    \/ UploadCommit(BatchReq)

SpecBatch == Init /\ [][NextBatch]_vars

(* A caller of two users with maps of both that uploads the same file to   *)
(* the maps and then hides, deletes and reads tracks by any id.            *)
NextScope ==
    \/ CreateMapBegin(ScopeReq)
    \/ CreateMapCommit(ScopeReq)
    \/ UploadBegin(ScopeReq)
    \/ UploadLookup(ScopeReq)
    \/ UploadStore(ScopeReq)
    \/ UploadCommit(ScopeReq)
    \/ DeleteTracksBegin(ScopeReq)
    \/ DeleteTracksSelect(ScopeReq)
    \/ DeleteTracksDelete(ScopeReq)
    \/ DeleteTracksStillUsed(ScopeReq)
    \/ DeleteTracksCommit(ScopeReq)
    \/ DeleteTracksFiles(ScopeReq)
    \/ GeometryBegin(ScopeReq)
    \/ GeometrySelect(ScopeReq)
    \/ BulkUpdateBegin(ScopeReq)
    \/ BulkUpdateExec(ScopeReq)
    \/ BulkUpdateCommit(ScopeReq)
    \/ UpdateTrackBegin(ScopeReq)
    \/ UpdateTrackSelect(ScopeReq)
    \/ UpdateTrackFlush(ScopeReq)
    \/ UpdateTrackCommit(ScopeReq)

SpecScope == Init /\ [][NextScope]_vars

(* A client that creates maps and renames them, with names of every kind. *)
NextNames ==
    \/ CreateMapBegin(NamesReq)
    \/ CreateMapCommit(NamesReq)
    \/ UpdateMapBegin(NamesReq)
    \/ UpdateMapFlush(NamesReq)
    \/ UpdateMapCommit(NamesReq)

SpecNames == Init /\ [][NextNames]_vars

(* A client whose uploads fail now and then on the disk or in the          *)
(* database, and whose deletes fail now and then on the disk.              *)
NextFault ==
    \/ CreateMapBegin(FaultReq)
    \/ CreateMapCommit(FaultReq)
    \/ UploadBegin(FaultReq)
    \/ UploadLookup(FaultReq)
    \/ UploadStore(FaultReq)
    \/ UploadCommit(FaultReq)
    \/ UploadStoreFails(FaultReq)
    \/ UploadFlushFails(FaultReq)
    \/ UploadCommitFails(FaultReq)
    \/ DeleteTracksBegin(FaultReq)
    \/ DeleteTracksSelect(FaultReq)
    \/ DeleteTracksDelete(FaultReq)
    \/ DeleteTracksStillUsed(FaultReq)
    \/ DeleteTracksCommit(FaultReq)
    \/ DeleteTracksFiles(FaultReq)
    \/ DeleteTracksFilesFails(FaultReq)
    \/ DeleteMapBegin(FaultReq)
    \/ DeleteMapSelect(FaultReq)
    \/ DeleteMapTracks(FaultReq)
    \/ DeleteMapStillUsed(FaultReq)
    \/ DeleteMapRowStep(FaultReq)
    \/ DeleteMapCommit(FaultReq)
    \/ DeleteMapFiles(FaultReq)
    \/ DeleteMapFilesFails(FaultReq)

SpecFault == Init /\ [][NextFault]_vars

(* A client that uploads a track to each of its maps and edits the tracks, *)
(* one at a time and in bulk.                                              *)
NextEdit ==
    \/ CreateMapBegin(EditReq)
    \/ CreateMapCommit(EditReq)
    \/ UploadBegin(EditReq)
    \/ UploadLookup(EditReq)
    \/ UploadStore(EditReq)
    \/ UploadCommit(EditReq)
    \/ BulkUpdateBegin(EditReq)
    \/ BulkUpdateExec(EditReq)
    \/ BulkUpdateCommit(EditReq)
    \/ UpdateTrackBegin(EditReq)
    \/ UpdateTrackSelect(EditReq)
    \/ UpdateTrackFlush(EditReq)
    \/ UpdateTrackCommit(EditReq)

SpecEdit == Init /\ [][NextEdit]_vars

(* A caller that acts for two users and uses every route of the maps. *)
NextIso == RouteStep(IsoReq) \/ ViewStep(IsoReq)

SpecIso == Init /\ [][NextIso]_vars

(***************************************************************************)
(* The pure functions and the blob store, called on their own.  calc holds *)
(* the input of the caller, its position and the values it was returned.   *)
(***************************************************************************)
Alphabet == {"<", ">", " ", "x"}
Docs == UNION {[1..n -> Alphabet] : n \in 0..HashMaxLen}
Blobs == Contents \cup {GpxBroken}
Lons == {0, 1}
Times == {NoTime, 0, 1, 3}
PointSeqs == UNION {[1..n -> [lon : Lons, time : Times]] : n \in 0..PtsMax}

Remove(s, i) == SubSeq(s, 1, i - 1) \o SubSeq(s, i + 1, Len(s))

(* The character i of s is white space between two tags, or before the     *)
(* first or after the last character of the document that is not white     *)
(* space.                                                                  *)
InterTagSpace(s, i) ==
    /\ IsSpace(s[i])
    /\ \/ \A m \in 1..i : IsSpace(s[m])
       \/ \A m \in i..Len(s) : IsSpace(s[m])
       \/ \E j \in 1..(i - 1), k \in (i + 1)..Len(s) :
             /\ s[j] = ">" /\ s[k] = "<"
             /\ \A m \in (j + 1)..(k - 1) : IsSpace(s[m])

(* Two documents, the second with one more character of white space. *)
HashInputs ==
    {[fn |-> "hash", pc |-> "input", a |-> Remove(b, i), b |-> b, at |-> i,
      ha |-> NoHash, hb |-> NoHash] :
        <<b, i>> \in {x \in Docs \X (1..HashMaxLen) :
                        x[2] <= Len(x[1]) /\ InterTagSpace(x[1], x[2])}}

StoreInputs ==
    [fn : {"store"}, pc : {"store1"}, user_id : {"u1"}, gpx_hash : Hashes,
     b1 : Blobs, b2 : Blobs, loaded : {<<>>}]

(* A caller of delete_gpx: the blob of its key is there or not, and a blob  *)
(* is there under another key.                                             *)
DeleteInputs ==
    {x \in [fn : {"delete"}, pc : {"setup"}, user_id : Users, gpx_hash : Hashes,
            present : BOOLEAN, other : BlobKeys, returned : {<<>>}, loaded : {<<>>},
            before : {[k \in BlobKeys |-> NoBlob]}] :
       x.other # <<x.user_id, x.gpx_hash>>}

(* Filenames for infer_activity_type: up to InferMaxWords words, each      *)
(* followed by a hyphen, in either case, with and without keywords.        *)
Upper(str) ==
    CASE str = "walk" -> <<"W", "A", "L", "K">>
      [] str = "run" -> <<"R", "U", "N">>
      [] str = "downhill" -> <<"D", "O", "W", "N", "H", "I", "L", "L">>
      [] str = "downhill skiing" ->
           <<"D", "o", "w", "n", "h", "i", "l", "l", " ", "S", "k", "i", "i", "n", "g">>

InferWords ==
    {Word("walk"), Word("run"), Word("bik"), Word("mountain bike"), Word("swim"),
     Word("mtb"), Word("other"), Word("triathlon"), Word("cycl"),
     Upper("walk"), Upper("run"), Upper("downhill"), Upper("downhill skiing"),
     <<"s", "k", "i", "i", "n", "g">>, <<"t", "r", "i", "p">>, <<"2", "5">>}

RECURSIVE InferStems(_)
InferStems(n) ==
    IF n = 0 THEN {<<>>}
    ELSE InferStems(n - 1) \cup
         {a \o w \o <<"-">> : a \in InferStems(n - 1), w \in InferWords}

InferInputs ==
    {[fn |-> "infer", pc |-> "input", filename |-> [stem |-> a, ext |-> ".gpx"],
      activity_type |-> "none"] : a \in InferStems(InferMaxWords)}

ParseInputs ==
    [fn : {"parse"}, pc : {"input"}, points : PointSeqs, gpx_data : {parse(<<>>)},
     coordinates : {<<>>}, segment_speeds : {Null}]

InitFn ==
    /\ maps = {}
    /\ tracks = {}
    /\ wmaps = {}
    /\ wtracks = {}
    /\ gpx_dir = [k \in BlobKeys |-> NoBlob]
    /\ req = [r \in Slots |-> Idle]
    /\ obs = [maps |-> {}, tracks |-> {}, gpx_dir |-> [k \in BlobKeys |-> NoBlob],
              start |-> {}]
    /\ refresh_tokens = {}
    /\ wrefresh_tokens = {}
    /\ exchanged = <<>>
    /\ revoked = {}
    /\ now = 0
    /\ geoip = GeoIdle
    /\ calc \in HashInputs \cup StoreInputs \cup ParseInputs \cup DeleteInputs
                \cup InferInputs

(* StorageService.calculate_hash of both documents *)
CalculateHash ==
    /\ calc.fn = "hash" /\ calc.pc = "input"
    /\ calc' = [calc EXCEPT !.pc = "done", !.ha = calculate_hash(calc.a),
                            !.hb = calculate_hash(calc.b)]
    /\ UNCHANGED <<db, gpx_dir, req, obs, exchanged, revoked, now, geoip>>

(* StorageService.store_gpx: the first call with b1, the second with b2 *)
StoreGpx ==
    /\ calc.fn = "store" /\ calc.pc \in {"store1", "store2"}
    /\ gpx_dir' = store_gpx(gpx_dir, calc.user_id, calc.gpx_hash,
                            IF calc.pc = "store1" THEN calc.b1 ELSE calc.b2)
    /\ calc' = [calc EXCEPT !.pc = IF calc.pc = "store1" THEN "load1" ELSE "load2"]
    /\ UNCHANGED <<db, req, obs, exchanged, revoked, now, geoip>>

(* StorageService.load_gpx after each call *)
LoadGpx ==
    /\ calc.fn = "store" /\ calc.pc \in {"load1", "load2"}
    /\ calc' = [calc EXCEPT !.pc = IF calc.pc = "load1" THEN "store2" ELSE "done",
                            !.loaded = Append(calc.loaded,
                                              load_gpx(gpx_dir, calc.user_id, calc.gpx_hash))]
    /\ UNCHANGED <<db, gpx_dir, req, obs, exchanged, revoked, now, geoip>>

(* The blobs that are there before the first delete_gpx. *)
StoreForDelete ==
    /\ calc.fn = "delete" /\ calc.pc = "setup"
    /\ LET dir == store_gpx(gpx_dir, calc.other[1], calc.other[2], Gpx2)
       IN  gpx_dir' = IF calc.present
                      THEN store_gpx(dir, calc.user_id, calc.gpx_hash, Gpx1)
                      ELSE dir
    /\ calc' = [calc EXCEPT !.pc = "delete1"]
    /\ UNCHANGED <<db, req, obs, exchanged, revoked, now, geoip>>

(* StorageService.delete_gpx, twice for the same key *)
DeleteGpx ==
    /\ calc.fn = "delete" /\ calc.pc \in {"delete1", "delete2"}
    /\ gpx_dir' = IF delete_gpx_returns(gpx_dir, calc.user_id, calc.gpx_hash)
                  THEN delete_gpx(gpx_dir, calc.user_id, calc.gpx_hash)
                  ELSE gpx_dir
    /\ calc' = [calc EXCEPT
                    !.pc = IF calc.pc = "delete1" THEN "load" ELSE "done",
                    !.before = gpx_dir,
                    !.returned = Append(calc.returned,
                                        delete_gpx_returns(gpx_dir, calc.user_id,
                                                           calc.gpx_hash))]
    /\ UNCHANGED <<db, req, obs, exchanged, revoked, now, geoip>>

(* StorageService.load_gpx between the two *)
LoadDeleted ==
    /\ calc.fn = "delete" /\ calc.pc = "load"
    /\ calc' = [calc EXCEPT !.pc = "delete2",
                            !.loaded = Append(calc.loaded,
                                              load_gpx(gpx_dir, calc.user_id, calc.gpx_hash))]
    /\ UNCHANGED <<db, gpx_dir, req, obs, exchanged, revoked, now, geoip>>

(* GPXParser.parse *)
ParseGpx ==
    /\ calc.fn = "parse" /\ calc.pc = "input"
    /\ LET gpx_data == parse(calc.points)
       IN  calc' = [calc EXCEPT !.pc = IF gpx_data.ok THEN "parsed" ELSE "failed",
                                !.gpx_data = gpx_data]
    /\ UNCHANGED <<db, gpx_dir, req, obs, exchanged, revoked, now, geoip>>

(* upload_track: the geometry that is stored with the row *)
ReduceGeometry ==
    /\ calc.fn = "parse" /\ calc.pc = "parsed"
    /\ calc' = [calc EXCEPT
                    !.pc = "stored",
                    !.coordinates = reduced_coordinates(calc.gpx_data.coordinates),
                    !.segment_speeds =
                        reduced_speeds(calc.gpx_data.segment_speeds,
                                       reduced_coordinates(calc.gpx_data.coordinates))]
    /\ UNCHANGED <<db, gpx_dir, req, obs, exchanged, revoked, now, geoip>>

(* GPXParser.infer_activity_type of the filename *)
InferActivityType ==
    /\ calc.fn = "infer" /\ calc.pc = "input"
    /\ calc' = [calc EXCEPT !.pc = "done",
                            !.activity_type = infer_activity_type(calc.filename)]
    /\ UNCHANGED <<db, gpx_dir, req, obs, exchanged, revoked, now, geoip>>

NextFn ==
    \/ CalculateHash
    \/ StoreGpx
    \/ LoadGpx
    \/ ParseGpx
    \/ ReduceGeometry
    \/ StoreForDelete
    \/ DeleteGpx
    \/ LoadDeleted
    \/ InferActivityType

SpecFn == InitFn /\ [][NextFn]_vars

(***************************************************************************)
(* Properties of sequential use (SpecSeq).  seq is the call of the caller; *)
(* when seq.pc = "done" it holds the call's arguments and its answer, and  *)
(* obs holds the rows and blobs the call started from.                     *)
(***************************************************************************)
seq == req[SeqReq]

Last(s) == s[Len(s)]

RowsOf(ts, map_id, gpx_hash) == {t \in ts : t.map_id = map_id /\ t.hash = gpx_hash}

UserRows(ts, user_id, gpx_hash) == {t \in ts : t.user_id = user_id /\ t.hash = gpx_hash}

(* upload_track has answered for a file that passed the name and size checks. *)
UploadAnswered(q) == q.kind = "upload" /\ q.pc = "done" /\ q.cur # NoFile

(* C1: a map never holds two Track rows with one content hash; an upload   *)
(* whose normalized hash is that of a Track of the same map answers as a   *)
(* duplicate with that Track's id, inserts no row, writes no blob and      *)
(* leaves the existing row, its name and filename included, as it was.     *)
C1_DuplicateUpload ==
    /\ \A t1, t2 \in tracks :
         (t1.map_id = t2.map_id /\ t1.hash = t2.hash) => t1 = t2
    /\ (/\ UploadAnswered(seq)
        /\ RowsOf(obs.tracks, seq.map_id, _minify_gpx(seq.cur.content)) # {})
       => \E t \in RowsOf(obs.tracks, seq.map_id, _minify_gpx(seq.cur.content)) :
            /\ seq.existing = t.id
            /\ seq.resp.track_ids # <<>>
            /\ Last(seq.resp.track_ids) = t.id
            /\ tracks = obs.tracks
            /\ gpx_dir = obs.gpx_dir

(* A re-indented copy of a stored track, under another filename, has been  *)
(* answered as a duplicate.                                                *)
C1_Witness ==
    /\ UploadAnswered(seq)
    /\ \E t \in RowsOf(obs.tracks, seq.map_id, _minify_gpx(seq.cur.content)) :
         /\ seq.existing = t.id
         /\ t.filename # seq.cur.filename
         /\ seq.cur.content # gpx_dir[<<seq.user, t.hash>>]

(* C2: an upload of content that its map does not hold is not a duplicate, *)
(* also when another map of the same user holds the same content: it adds  *)
(* its row next to the other map's row, and the one blob of that user and  *)
(* hash is there and is not written again.                                 *)
C2_SameContentTwoMaps ==
    (/\ UploadAnswered(seq)
     /\ ~ParseFails(seq.cur.content)
     /\ RowsOf(obs.tracks, seq.map_id, seq.hash) = {})
    => /\ seq.existing = 0
       /\ seq.resp.uploaded >= 1
       /\ \E t \in tracks :
            /\ t.id = seq.new_id
            /\ t.id = Last(seq.resp.track_ids)
            /\ t.map_id = seq.map_id /\ t.user_id = seq.user /\ t.hash = seq.hash
            /\ t \notin obs.tracks
            /\ tracks = obs.tracks \cup {t}
       /\ gpx_dir[<<seq.user, seq.hash>>] # NoBlob
       /\ UserRows(obs.tracks, seq.user, seq.hash) # {} => gpx_dir = obs.gpx_dir

(* The second of two uploads of one content to two maps has answered. *)
C2_Witness ==
    /\ UploadAnswered(seq)
    /\ seq.existing = 0
    /\ \E t1, t2 \in tracks :
         /\ t1.hash = t2.hash /\ t1.user_id = t2.user_id /\ t1.map_id # t2.map_id
         /\ t1 \in obs.tracks
         /\ t2 \notin obs.tracks /\ t2.id = seq.new_id

(* C3: the hashes_to_delete of delete_tracks are exactly the hashes of the *)
(* rows it deleted that no row of that user, in any map, holds afterwards. *)
C3_DeleteTracksHashes ==
    (seq.kind = "delete_tracks" /\ seq.pc = "done" /\ seq.resp.status = 200)
    => LET gone == obs.tracks \ tracks
       IN  /\ tracks \subseteq obs.tracks
           /\ gone = {t \in obs.tracks : /\ t.id \in seq.ids
                                         /\ t.map_id = seq.map_id
                                         /\ t.user_id = seq.user}
           /\ seq.resp.deleted = Cardinality(gone)
           /\ seq.todel = {h \in {t.hash : t \in gone} :
                             UserRows(tracks, seq.user, h) = {}}

(* delete_tracks has deleted a row whose hash another map still holds. *)
C3_Witness ==
    /\ seq.kind = "delete_tracks" /\ seq.pc = "done"
    /\ \E t \in obs.tracks \ tracks :
         /\ UserRows(tracks, seq.user, t.hash) # {}
         /\ t.hash \notin seq.todel

(* C25: delete_tracks returns deleted equal to the number of rows it has   *)
(* removed, which is the number of distinct requested ids that match a     *)
(* Track in (map_id, user_id); ids that match nothing are skipped without  *)
(* error; an empty list of ids returns deleted = 0 with no hashes and      *)
(* changes nothing.                                                        *)
C25_DeletedCount ==
    (seq.kind = "delete_tracks" /\ seq.pc = "done" /\ seq.resp.status = 200)
    => LET hit == {id \in seq.ids :
                     \E t \in obs.tracks : /\ t.id = id
                                           /\ t.map_id = seq.map_id
                                           /\ t.user_id = seq.user}
       IN  /\ seq.resp.deleted = Cardinality(hit)
           /\ {t.id : t \in obs.tracks \ tracks} = hit
           /\ Cardinality(obs.tracks \ tracks) = Cardinality(hit)
           /\ seq.resp.detail = "" /\ seq.error = "" /\ seq.resp.errors = <<>>
           /\ seq.ids = {}
              => /\ seq.resp.deleted = 0
                 /\ seq.todel = {}
                 /\ tracks = obs.tracks /\ maps = obs.maps
                 /\ gpx_dir = obs.gpx_dir

(* delete_tracks was given two ids of which one is a track of the map, and *)
(* has answered deleted = 1.                                               *)
C25_Witness ==
    /\ seq.kind = "delete_tracks" /\ seq.pc = "done"
    /\ Cardinality(seq.ids) = 2
    /\ seq.resp.deleted = 1
    /\ Cardinality(obs.tracks) = Cardinality(tracks) + 1

(* The blobs that the step removes. *)
BlobsRemoved == {k \in BlobKeys : gpx_dir[k] # NoBlob /\ gpx_dir'[k] = NoBlob}

(* C27: the blob of a freed hash is deleted only after the transaction     *)
(* that removed the last referencing Track or Map row has committed: in    *)
(* the delete-tracks and delete-map flows no blob is removed before the    *)
(* commit, and none is removed when the request ends without committing.   *)
C27_BlobsDeletedAfterCommit ==
    [][/\ BlobsRemoved # {}
          => /\ seq.kind \in {"delete_tracks", "delete_map"}
             /\ seq.pc \in {"D_files", "M_files"}
             /\ wtracks = tracks /\ wmaps = maps
             /\ tracks # obs.tracks
             /\ \A k \in BlobsRemoved :
                   /\ k \in {<<seq.user, h>> : h \in seq.todel}
                   /\ \E t \in obs.tracks : <<t.user_id, t.hash>> = k
                   /\ ~\E t \in tracks : <<t.user_id, t.hash>> = k
       /\ (/\ seq'.kind \in {"delete_tracks", "delete_map"}
           /\ seq'.pc \notin {"D_files", "M_files", "done"})
          => gpx_dir' = obs'.gpx_dir
       /\ (/\ seq'.kind \in {"delete_tracks", "delete_map"}
           /\ seq'.pc = "done" /\ tracks' = obs'.tracks /\ maps' = obs'.maps)
          => gpx_dir' = obs'.gpx_dir]_vars

(* The rows of a delete are committed and the blob they freed is there     *)
(* still.                                                                  *)
C27_Witness ==
    /\ seq.pc \in {"D_files", "M_files"}
    /\ wtracks = tracks /\ tracks # obs.tracks
    /\ \E h \in seq.todel : gpx_dir[<<seq.user, h>>] # NoBlob

(* C7: delete_map on the only map of a user answers deleted=false with     *)
(* "Cannot delete the last map", with or without tracks in the map; it     *)
(* deletes neither the map nor a track and reports no hash.                *)
C7_LastMapRefused ==
    (/\ seq.kind = "delete_map" /\ seq.pc = "done"
     /\ Cardinality({m \in obs.maps : m.user_id = seq.user}) = 1
     /\ \E m \in obs.maps : m.id = seq.map_id /\ m.user_id = seq.user)
    => /\ seq.error = "Cannot delete the last map"
       /\ seq.resp.deleted = 0
       /\ seq.resp.status = 400
       /\ seq.todel = {}
       /\ maps = obs.maps
       /\ tracks = obs.tracks
       /\ gpx_dir = obs.gpx_dir

(* The only map, holding a track, has been refused. *)
C7_Witness ==
    /\ seq.kind = "delete_map" /\ seq.pc = "done"
    /\ seq.error = "Cannot delete the last map"
    /\ Cardinality({m \in maps : m.user_id = seq.user}) = 1
    /\ \E t \in tracks : t.map_id = seq.map_id /\ t.user_id = seq.user

(* C9: a delete_map that succeeds removes the map row and every Track row  *)
(* of the map and nothing else; its hashes_to_delete are exactly the       *)
(* hashes of the map's tracks that no track of that user in another map    *)
(* holds.  When the map row is not deleted, hashes_to_delete is empty.     *)
C9_DeleteMap ==
    (seq.kind = "delete_map" /\ seq.pc = "done")
    => LET own == {t \in obs.tracks : t.map_id = seq.map_id /\ t.user_id = seq.user}
           row == {m \in obs.maps : m.id = seq.map_id /\ m.user_id = seq.user}
       IN  IF seq.resp.deleted = 1
           THEN /\ row # {}
                /\ maps = obs.maps \ row
                /\ tracks = obs.tracks \ own
                /\ seq.todel = {h \in {t.hash : t \in own} :
                                  UserRows(obs.tracks \ own, seq.user, h) = {}}
           ELSE /\ seq.todel = {}
                /\ maps = obs.maps
                /\ tracks = obs.tracks
                /\ gpx_dir = obs.gpx_dir

(* A map has been deleted with the last reference to a blob, while another *)
(* map of the user keeps its own track.                                    *)
C9_Witness ==
    /\ seq.kind = "delete_map" /\ seq.pc = "done" /\ seq.resp.deleted = 1
    /\ seq.todel # {}
    /\ \A h \in seq.todel : gpx_dir[<<seq.user, h>>] = NoBlob
    /\ \E t \in tracks : t.user_id = seq.user

(***************************************************************************)
(* Two users (SpecUsers).                                                  *)
(***************************************************************************)
multi == req[MultiReq]

batch == req[BatchReq]

(* A document without a track point, and one that is not XML. *)
Invalid == {GpxEmpty, GpxBroken}

(* C12: an upload of content that cannot be decoded or that holds no track *)
(* point fails as a validation error ("Invalid GPX file") and leaves the   *)
(* stores as they were: no Track row is inserted and no blob is written.   *)
C12_InvalidUploadLeavesStores ==
    (UploadAnswered(batch) /\ batch.cur.content \in Invalid)
    => /\ batch.resp.failed >= 1
       /\ batch.resp.errors # <<>>
       /\ Last(batch.resp.errors) =
              [filename |-> batch.cur.filename, msg |-> "Invalid GPX file"]
       /\ batch.existing = 0 /\ batch.new_id = 0
       /\ tracks = obs.tracks /\ wtracks = obs.tracks
       /\ gpx_dir = obs.gpx_dir

(* A batch has ended with a document that holds an empty segment, after a  *)
(* file of the same batch was uploaded.                                    *)
C12_Witness ==
    /\ UploadAnswered(batch) /\ batch.cur.content = GpxEmpty
    /\ batch.resp.uploaded >= 1
    /\ tracks # obs.start

edit == req[EditReq]

Mutable == {"visible", "name", "activity_type"}

EditAnswered == edit.kind \in {"update_track", "update_tracks"} /\ edit.pc = "done"

(* The rows the edit addresses: the ids it names, in its map, of its user. *)
Targeted(t) ==
    /\ t.map_id = edit.map_id /\ t.user_id = edit.user
    /\ IF edit.kind = "update_track" THEN t.id = edit.track_id ELSE t.id \in edit.ids

(* The row t after the edit: the mutable fields the edit names are set, the *)
(* rest is as it was.                                                       *)
Edited(t) ==
    [f \in DOMAIN t |-> IF f \in Mutable \cap DOMAIN edit.updates
                        THEN edit.updates[f] ELSE t[f]]

C26_UpdatedCount ==
    (edit.kind = "update_tracks" /\ edit.pc = "done" /\ edit.resp.status = 200)
    => LET hit == {t \in obs.tracks : /\ t.id \in edit.ids
                                     /\ t.map_id = edit.map_id
                                     /\ t.user_id = edit.user}
       IN  IF edit.ids = {} \/ hit = {} \/ Mutable \cap DOMAIN edit.updates = {}
           THEN edit.resp.updated = 0 /\ tracks = obs.tracks /\ wtracks = obs.tracks
           ELSE /\ edit.resp.updated = Cardinality(hit)
                /\ tracks \ obs.tracks \subseteq {Edited(t) : t \in hit}
                /\ obs.tracks \ tracks \subseteq hit
                /\ \A t \in hit : Edited(t) \in tracks

(* A bulk update that names no allowed field was given the id of a track   *)
(* of its map and has answered 0.                                          *)
C26_Witness ==
    /\ edit.kind = "update_tracks" /\ edit.pc = "done" /\ edit.resp.status = 200
    /\ "color" \in DOMAIN edit.updates
    /\ \E t \in tracks : Targeted(t)
    /\ edit.resp.updated = 0

(***************************************************************************)
(* The default map (SpecMaps).  ensure is the call and obs the state in    *)
(* which it began.                                                         *)
(***************************************************************************)
ensure == req[MapsReq]

EnsureAnswered == ensure.kind = "ensure_default_map" /\ ensure.pc = "done"

MapsOf(ms) == {m \in ms : m.user_id = ensure.user}

DefaultsOf(ms) == {m \in MapsOf(ms) : m.is_default}

(* The call has added the default map "My Map" and returned it. *)
CreatedMyMap ==
    \E m \in maps \ obs.maps :
        /\ m = [id |-> ensure.new_id, user_id |-> ensure.user, name |-> MyMap,
                is_default |-> TRUE]
        /\ maps = obs.maps \cup {m}

(* The call has returned one of the maps in rows and changed nothing. *)
ReturnedOneOf(rows) ==
    /\ maps = obs.maps
    /\ Cardinality(ensure.resp.rows) = 1
    /\ ensure.resp.rows \subseteq rows

(* C19 as stated: ensure_default_map creates "My Map" only when the user   *)
(* has no map at all; when the user has a map it returns one of the maps   *)
(* and leaves the user's maps unchanged.                                   *)
C19_Original ==
    EnsureAnswered
    => IF MapsOf(obs.maps) = {} THEN CreatedMyMap ELSE ReturnedOneOf(MapsOf(obs.maps))

(* C19, amended: ensure_default_map creates a map, the default map "My     *)
(* Map", only when the user has no default map; when the user has a        *)
(* default map it returns that map and leaves the user's maps unchanged.   *)
(* After the call the user has one default map, the map returned, so       *)
(* repeated calls return the same map and never add a second one.          *)
C19_EnsureDefault ==
    EnsureAnswered
    => /\ IF DefaultsOf(obs.maps) = {} THEN CreatedMyMap
          ELSE ReturnedOneOf(DefaultsOf(obs.maps))
       /\ wmaps = maps
       /\ Cardinality(DefaultsOf(maps)) = 1
       /\ \A m \in DefaultsOf(maps) :
             m.id = ensure.new_id \/ ensure.resp.rows = {m}

(* A user with a map that is not the default has asked for the default map *)
(* and has two maps now.                                                   *)
C19_Witness ==
    /\ EnsureAnswered
    /\ MapsOf(obs.maps) # {} /\ DefaultsOf(obs.maps) = {}
    /\ Cardinality(MapsOf(maps)) = Cardinality(MapsOf(obs.maps)) + 1
    /\ \E m \in maps : m.name = MyMap /\ m.id = ensure.new_id

(* The maps of the user and the default ones among them. *)
UserMaps(ms, user_id) == {m \in ms : m.user_id = user_id}
UserDefaults(ms, user_id) == {m \in UserMaps(ms, user_id) : m.is_default}

(* C30, as claimed: after any sequence of create_map (with or without      *)
(* is_default), ensure_default_map and delete_map calls, every user who    *)
(* has at least one map has exactly one map with is_default set: creating  *)
(* a default unsets all the user's other defaults, and no operation leaves *)
(* a user with maps but no default.                                        *)
C30_Original ==
    \A u \in Users :
        UserMaps(maps, u) # {} => Cardinality(UserDefaults(maps, u)) = 1

(* C30, amended: after any sequence of create_map (with or without         *)
(* is_default), ensure_default_map and delete_map calls, every user has at *)
(* most one map with is_default set: creating a default unsets all the     *)
(* user's other defaults.  A user has exactly one default when             *)
(* ensure_default_map or a create_map with is_default has returned for     *)
(* them; a user whose maps were created without is_default, or whose       *)
(* default map has been deleted, has maps and no default until then.       *)
C30_AtMostOneDefault ==
    /\ \A u \in Users :
          /\ Cardinality(UserDefaults(maps, u)) <= 1
          /\ Cardinality(UserDefaults(wmaps, u)) <= 1
    /\ (/\ ensure.pc = "done"
        /\ \/ ensure.kind = "ensure_default_map" /\ ensure.resp.status = 200
           \/ ensure.kind = "create_map" /\ ensure.is_default)
       => /\ Cardinality(UserDefaults(maps, ensure.user)) = 1
          /\ ensure.kind = "create_map"
             => \A m \in UserDefaults(maps, ensure.user) : m.id = ensure.new_id
    /\ (ensure.pc = "done" /\ ensure.kind = "create_map" /\ ~ensure.is_default)
       => UserDefaults(maps, ensure.user) = UserDefaults(obs.maps, ensure.user)

(* A default map has been created for a user who had one: the older one is *)
(* a default no longer.                                                    *)
C30_Witness ==
    /\ ensure.pc = "done" /\ ensure.kind = "create_map" /\ ensure.is_default
    /\ \E old \in UserDefaults(obs.maps, ensure.user) :
          [old EXCEPT !.is_default = FALSE] \in maps
    /\ Cardinality(UserMaps(maps, ensure.user)) >= 3

(***************************************************************************)
(* Rotation of refresh tokens (SpecAuth).                                  *)
(***************************************************************************)
(* C20: each issued refresh token is exchanged successfully at most once:  *)
(* after a refresh with token T has succeeded no later refresh with T      *)
(* succeeds, and two overlapping refreshes with the same T never both      *)
(* succeed.                                                                *)
C20_ExchangedAtMostOnce ==
    \A t \in 1..Len(exchanged) : exchanged[t] <= 1

(***************************************************************************)
(* The names of maps (SpecNames).                                          *)
(***************************************************************************)
names == req[NamesReq]

(* The call has created a map, or renamed one of the caller's maps. *)
NameAnswered ==
    /\ names.pc = "done"
    /\ \/ names.kind = "create_map"
       \/ /\ names.kind = "update_map"
          /\ get_map(obs.maps, names.map_id, names.user) # {}

Trimmed(v) == RStrip(LStrip(v))

(* The call has succeeded and the name of its map is stored as name. *)
StoredAs(name) ==
    /\ names.resp.status = IF names.kind = "create_map" THEN 201 ELSE 200
    /\ \E m \in maps :
          /\ m.id = IF names.kind = "create_map" THEN names.new_id ELSE names.map_id
          /\ m.name = name
          /\ {x \in maps : x.id # m.id} = {x \in obs.maps : x.id # m.id}

(* The call was refused with a validation error and has changed nothing. *)
Refused ==
    /\ names.resp.status = 422
    /\ maps = obs.maps /\ wmaps = obs.maps

(* C31, as claimed: creating or renaming a map succeeds exactly when the   *)
(* name, after trimming leading and trailing whitespace, has between 1 and *)
(* 100 characters, and the stored name is the trimmed form; every other    *)
(* name is rejected with a validation error and changes nothing.           *)
C31_Original ==
    NameAnswered
    => IF Len(Trimmed(names.raw_name)) \in 1..100
       THEN StoredAs(Trimmed(names.raw_name))
       ELSE Refused

(* C31, amended: creating or renaming a map succeeds exactly when the name *)
(* as it is sent has between 1 and 100 characters and is not white space   *)
(* only; the stored name is the trimmed form, which has between 1 and 100  *)
(* characters.  Every other name is rejected with a validation error and   *)
(* changes nothing: a name of more than 100 characters as sent is          *)
(* rejected also when its trimmed form has 100 characters or fewer.        *)
C31_NameValidated ==
    NameAnswered
    => IF Len(names.raw_name) \in 1..100 /\ Trimmed(names.raw_name) # <<>>
       THEN /\ StoredAs(Trimmed(names.raw_name))
            /\ Len(Trimmed(names.raw_name)) \in 1..100
       ELSE Refused

(* A map was renamed with a name of 100 characters, the last a space: the  *)
(* 99 letters are stored.                                                  *)
C31_Witness ==
    /\ NameAnswered /\ names.kind = "update_map"
    /\ Len(names.raw_name) = 100
    /\ StoredAs(Xs(99))

(***************************************************************************)
(* The scope of the track operations (SpecScope).                          *)
(***************************************************************************)
scope == req[ScopeReq]

TrackOps == {"delete_tracks", "update_track", "update_tracks", "geometry"}

(* The rows of ts outside the pair (map_id, user_id) of the call q. *)
Outside(ts, q) == {t \in ts : t.map_id # q.map_id \/ t.user_id # q.user}
Inside(ts, q) == ts \ Outside(ts, q)

(* C24: the track operations called with (map_id, user_id) never read,     *)
(* modify or delete a Track row outside that pair: delete_tracks,          *)
(* update_track, update_tracks and the geometry lookups given ids of       *)
(* tracks of another map of the user or of a map of another user leave     *)
(* those rows untouched and do not return them.                            *)
C24_ScopedToMapAndUser ==
    [][scope'.kind \in TrackOps =>
         /\ Outside(tracks', scope') = Outside(tracks, scope')
         /\ Outside(wtracks', scope') = Outside(wtracks, scope')
         /\ (scope'.pc = "done" /\ scope'.kind = "geometry")
               => scope'.resp.rows \subseteq Geometries(Inside(tracks, scope'))
         /\ (scope'.pc = "done" /\ scope'.kind = "update_track"
                                /\ scope'.resp.status = 200)
               => scope'.resp.rows \subseteq Inside(tracks', scope')
         /\ (scope'.pc = "done" /\ scope'.kind = "update_tracks")
               => scope'.resp.updated <= Cardinality(Inside(tracks', scope'))
         /\ (scope'.pc = "done" /\ scope'.kind = "delete_tracks")
               => scope'.resp.deleted <= Cardinality(Inside(obs.tracks, scope'))]_vars

(* A bulk update of a map of u1 was given the ids of a visible track of    *)
(* another map of u1 and of a visible track of u2 as well as one of its    *)
(* own: it has hidden its own and the two others are visible still.        *)
C24_Witness ==
    /\ scope.pc = "done" /\ scope.kind = "update_tracks" /\ scope.user = "u1"
    /\ scope.resp.updated = 1
    /\ \E a, b, c \in tracks :
          /\ {a.id, b.id, c.id} \subseteq scope.ids
          /\ a.map_id = scope.map_id /\ ~a.visible
          /\ b.user_id = "u1" /\ b.map_id # scope.map_id /\ b.visible
          /\ c.user_id = "u2" /\ c.visible

(***************************************************************************)
(* Duplicates in the answer to a batch (SpecBatch).                        *)
(***************************************************************************)
(* The step handles a file for which the lookup has found a Track. *)
DuplicateStep == batch.pc = "U_store" /\ batch.existing # 0

(* C23, as claimed: a file of a batch that resolves to an existing Track   *)
(* counts as uploaded: its track id is appended to track_ids and the       *)
(* uploaded count is incremented for it.                                   *)
C23_Original ==
    [][DuplicateStep =>
         /\ batch'.resp.track_ids = Append(batch.resp.track_ids, batch.existing)
         /\ batch'.resp.uploaded = batch.resp.uploaded + 1]_vars

(* C23, amended: a file of a batch that resolves to an existing Track gets *)
(* the id of that Track appended to track_ids and is not a failure: the    *)
(* failed count and the errors stay as they are and no row is written.     *)
(* The uploaded count is not incremented for it: it counts the new rows,   *)
(* and a batch of duplicates only is answered 200 with uploaded = 0.       *)
C23_DuplicateGetsId ==
    [][DuplicateStep =>
         /\ batch'.resp.track_ids = Append(batch.resp.track_ids, batch.existing)
         /\ batch'.resp.uploaded = batch.resp.uploaded
         /\ batch'.resp.failed = batch.resp.failed
         /\ batch'.resp.errors = batch.resp.errors
         /\ tracks' = tracks
         /\ batch'.pc = "done" =>
               /\ batch'.resp.uploaded = Cardinality(tracks' \ obs.start)
               /\ (batch'.resp.uploaded = 0 /\ batch'.resp.failed = 0)
                     => batch'.resp.status = 200]_vars

(* A batch holds the same new file twice: one row, its id twice. *)
C23_Witness ==
    /\ UploadAnswered(batch)
    /\ batch.resp.status = 201
    /\ batch.resp.uploaded = 1
    /\ batch.resp.failed = 0
    /\ Len(batch.resp.track_ids) = 2
    /\ batch.resp.track_ids[1] = batch.resp.track_ids[2]

(***************************************************************************)
(* Uploads that meet errors (SpecFault).                                   *)
(***************************************************************************)
fault == req[FaultReq]

(* The file of the step has failed: the handler has counted it. *)
FileFailed == fault.pc # "idle" /\ fault'.resp.failed = fault.resp.failed + 1

(* C22: any error while persisting one file of a batch rolls back only     *)
(* that file's transaction: the Track rows committed for earlier files of  *)
(* the batch stay persisted, no Track row of the failed file becomes       *)
(* visible, and the later files are processed in a clean transaction.      *)
C22_ErrorRollsBackOneFile ==
    [][/\ FileFailed => (tracks' = tracks /\ wtracks' = tracks)
       /\ (fault.kind = "upload" /\ ~Free(FaultReq)) => tracks \subseteq tracks'
       /\ fault'.pc = "U_lookup" => wtracks' = tracks']_vars

(* A batch of three files has ended: a file before the last has been       *)
(* committed, one has failed on an error, the last has been committed.     *)
C22_Witness ==
    /\ fault.kind = "upload" /\ fault.pc = "done" /\ fault.nfiles = 3
    /\ fault.resp.failed = 1
    /\ fault.resp.errors[1].msg = "Unable to process file"
    /\ obs.tracks # obs.start
    /\ tracks # obs.tracks
    /\ Cardinality(tracks) = Cardinality(obs.start) + 2

(* C28: a failure while deleting a blob file after the row deletion has    *)
(* committed is not fatal: the delete-tracks or delete-map request still   *)
(* reports success with the deleted count, the rows stay deleted, and the  *)
(* remaining freed hashes are still processed.                             *)
C28_BlobFailureNotFatal ==
    (/\ fault.kind \in {"delete_tracks", "delete_map"} /\ fault.pc = "done"
     /\ fault.error = "OSError")
    => /\ fault.resp.status = 200
       /\ fault.resp.deleted >= 1
       /\ tracks # obs.tracks /\ tracks \subseteq obs.tracks
       /\ \A h \in fault.todel \ {fault.hash} : gpx_dir[<<fault.user, h>>] = NoBlob

(***************************************************************************)
(* Revocation of refresh tokens (SpecTokens).                              *)
(***************************************************************************)
tok == req[TokReq]

(* C21: once a refresh token has been revoked, by revoke_token (in refresh *)
(* or logout) or by revoke_all_user_tokens for its user,                   *)
(* verify_refresh_token returns None for it in every later state: a        *)
(* revoked token never becomes valid again.                                *)
C21_RevokedStaysInvalid ==
    /\ \A t \in revoked :
          /\ verify_refresh_token(wrefresh_tokens, t) = {}
          /\ verify_refresh_token(refresh_tokens, t) = {}
    /\ (tok.kind = "verify_refresh_token" /\ tok.token \in revoked)
          => tok.resp.rows = {}
    /\ (tok.kind = "refresh" /\ tok.pc = "done" /\ tok.resp.status = 200)
          => tok.token \in revoked

(* A token revoked by logout is verified and found invalid while a token   *)
(* of the other user is still valid.                                       *)
C21_Witness ==
    /\ tok.kind = "verify_refresh_token" /\ tok.token \in revoked
    /\ tok.resp.rows = {}
    /\ refresh_tokens # {}
    /\ \E t \in revoked : exchanged[t] = 0

(***************************************************************************)
(* Transactions and expiry of refresh tokens (SpecExpiry).                 *)
(***************************************************************************)
(* The steps at which a route commits after the manager has returned. *)
CallerCommits == {"A_commit", "R_commit", "O_commit"}

(* C34: create_refresh_token, revoke_token, revoke_all_user_tokens and     *)
(* cleanup_expired_tokens flush and never commit: the stored tokens change *)
(* durably only when the caller commits, so that a caller that rolls back  *)
(* undoes them.                                                            *)
C34_ManagerNeverCommits ==
    [][tok.pc \notin CallerCommits => refresh_tokens' = refresh_tokens]_vars

(* The users of the rows of token t of which the expiry is after at. *)
StoredValid(rows, t, at) ==
    {x.user_id : x \in {y \in rows : y.token_hash = hash_token(t) /\ y.expires_at > at}}

VerifyStep == tok' # tok /\ tok'.kind = "verify_refresh_token"

CleanupStep == tok' # tok /\ tok'.kind = "cleanup_expired_tokens"

(* C35: verify_refresh_token returns the user of the token exactly when    *)
(* the token is stored and its expiry is strictly in the future, and None  *)
(* otherwise; cleanup_expired_tokens removes only rows that are expired,   *)
(* so that at no step of it the result of verify_refresh_token changes     *)
(* for any token.                                                          *)
C35_CleanupKeepsVerify ==
    [][/\ VerifyStep =>
            /\ tok'.resp.rows = StoredValid(wrefresh_tokens, tok'.token, now)
            /\ Cardinality(tok'.resp.rows) <= 1
       /\ CleanupStep =>
            /\ \A t \in 1..MaxTokens :
                  /\ StoredValid(wrefresh_tokens', t, now)
                        = StoredValid(wrefresh_tokens, t, now)
                  /\ StoredValid(refresh_tokens', t, now)
                        = StoredValid(refresh_tokens, t, now)
            /\ wrefresh_tokens' \subseteq wrefresh_tokens
            /\ \A x \in wrefresh_tokens \ wrefresh_tokens' : x.expires_at <= now]_vars

(* A cleanup has removed a token, which no revocation has touched, and has *)
(* left a token that is still valid.                                       *)
C35_Witness ==
    /\ tok.kind = "cleanup_expired_tokens" /\ tok.pc = "done"
    /\ revoked = {}
    /\ Len(exchanged) > Cardinality(refresh_tokens)
    /\ \E x \in refresh_tokens : x.expires_at > now

Stored(t) == \E x \in refresh_tokens : x.token_hash = hash_token(t)

(* C36: a refresh request either revokes the token presented and issues a  *)
(* new one, or fails and leaves the token presented in the store: after a  *)
(* failure the user is never left with the old token revoked and no new    *)
(* token.                                                                  *)
C36_RefreshAtomic ==
    (tok.kind = "refresh" /\ tok.pc = "done") =>
        /\ tok.resp.status = 200 => ~Stored(tok.token) /\ Stored(tok.new_id)
        /\ tok.resp.status = 500 => Stored(tok.token)

(***************************************************************************)
(* The GeoIP database (SpecGeo, SpecGeoLive).                              *)
(***************************************************************************)
(* The requests that the call under way has sent. *)
Gets == geoip.serial - geoip.base

Returned == geoip.pc = "done" /\ geoip.result # "none"

GeoRetries ==
    /\ Gets <= MAX_RETRIES
    /\ Len(geoip.outcomes) <= Gets
    /\ \A i \in 1..Len(geoip.outcomes) :
          geoip.outcomes[i] = "ok" =>
              i = Len(geoip.outcomes) /\ Gets = i /\ geoip.pc = "done"
                                      /\ geoip.result = "True"
    /\ Len(geoip.sleeps) <= MAX_RETRIES - 1
    /\ \A i \in 1..Len(geoip.sleeps) : geoip.sleeps[i] = <<1, 2>>[i]
    /\ geoip.pc = "get" => Len(geoip.sleeps) = Gets /\ Len(geoip.outcomes) = Gets
    /\ (Returned /\ geoip.result = "True") =>
          /\ Last(geoip.outcomes) = "ok"
          /\ Len(geoip.sleeps) = Len(geoip.outcomes) - 1
    /\ (Returned /\ geoip.result = "False") =>
          /\ geoip.outcomes = <<"failed", "failed", "failed">>
          /\ geoip.sleeps = <<1, 2>>
          /\ Gets = MAX_RETRIES
    /\ (geoip.pc = "done" /\ Gets > 0) => geoip.result \in {"True", "False"}

(* C37: download_database ends after MAX_RETRIES = 3 attempts at most: it  *)
(* returns True at the first attempt that succeeds and makes no attempt    *)
(* after it, returns False when all three have failed, and sleeps once     *)
(* after every failed attempt but the last, 1 second and then 2.           *)
C37_DownloadTerminates ==
    []GeoRetries /\ ((geoip.pc # "idle") ~> (geoip.pc = "done"))

(* The third attempt has succeeded after two that failed. *)
C37_Witness ==
    /\ Returned /\ geoip.result = "True"
    /\ geoip.outcomes = <<"failed", "failed", "ok">>
    /\ geoip.sleeps = <<1, 2>>

(* C38: db_path is replaced as a whole only: at every step of a call of    *)
(* download_database, and after it has returned True or False, db_path     *)
(* holds what it held when the call began (nothing, if it was missing) or  *)
(* a complete database extracted by the call, never a part of one; and     *)
(* initialize, when db_path exists, sends no request and leaves the file.  *)
C38_ReplacedWhole ==
    geoip.call # "none" =>
        /\ \/ geoip.files[DbPath] = geoip.before
           \/ \E k \in (geoip.base + 1)..geoip.serial :
                 geoip.files[DbPath] = <<"mmdb", k>>
        /\ (geoip.call = "initialize" /\ geoip.before # Missing) =>
              /\ geoip.pc = "done"
              /\ geoip.files[DbPath] = geoip.before
              /\ geoip.serial = 0

(* A call that began with the database of an earlier call has failed       *)
(* three times, the last time while it wrote the temporary file.           *)
C38_Witness ==
    /\ Returned /\ geoip.result = "False"
    /\ geoip.before # Missing /\ geoip.before # <<"mmdb", 0>>
    /\ geoip.files[DbPath] = geoip.before
    /\ geoip.files[with_suffix(DbPath, ".mmdb.tmp")] = <<"partial", geoip.serial>>

(***************************************************************************)
(* The blob store, the hash and the geometry (SpecFn).                     *)
(***************************************************************************)
StoreKey == <<calc.user_id, calc.gpx_hash>>

(* C15: store_gpx is first-writer-wins and idempotent: after store(key,    *)
(* b1) and then store(key, b2) the blob still holds b1, the bytes of the   *)
(* first upload as they were sent, and load(key) returns b1 after either   *)
(* call.                                                                   *)
C15_FirstWriterWins ==
    (calc.fn = "store" /\ calc.pc # "store1")
    => /\ gpx_dir[StoreKey] = calc.b1
       /\ \A k \in BlobKeys \ {StoreKey} : gpx_dir[k] = NoBlob
       /\ \A i \in 1..Len(calc.loaded) : calc.loaded[i] = calc.b1

(* Indented bytes were stored first and other bytes second, and both loads *)
(* returned the indented bytes.                                            *)
C15_Witness ==
    /\ calc.fn = "store" /\ calc.pc = "done"
    /\ calc.b1 = Gpx1Indented /\ calc.b2 = Gpx2
    /\ calc.gpx_hash = calculate_hash(Gpx1Indented)
    /\ calc.loaded = <<Gpx1Indented, Gpx1Indented>>

(* C29: delete_gpx returns True exactly when a blob existed for the key    *)
(* and removes it; afterwards load_gpx for the key returns None and a      *)
(* second delete_gpx returns False and changes nothing; the blobs under    *)
(* other keys are unaffected.                                              *)
C29_DeleteGpx ==
    (calc.fn = "delete" /\ calc.pc # "setup")
    => /\ gpx_dir[calc.other] = Gpx2
       /\ \A k \in BlobKeys \ {StoreKey, calc.other} : gpx_dir[k] = NoBlob
       /\ calc.pc = "delete1" => (gpx_dir[StoreKey] # NoBlob <=> calc.present)
       /\ calc.pc # "delete1"
          => /\ calc.returned[1] = calc.present
             /\ gpx_dir[StoreKey] = NoBlob
       /\ calc.pc \in {"delete2", "done"} => calc.loaded = <<NoBlob>>
       /\ calc.pc = "done"
          => /\ calc.returned[2] = FALSE
             /\ gpx_dir = calc.before

(* A blob was deleted while the same user holds a blob of another hash:    *)
(* the first call returned True, the second False.                         *)
C29_Witness ==
    /\ calc.fn = "delete" /\ calc.pc = "done"
    /\ calc.present
    /\ calc.other[1] = calc.user_id
    /\ calc.returned = <<TRUE, FALSE>>
    /\ gpx_dir[calc.other] = Gpx2

(* infer_activity_type has answered for calc.filename. *)
Inferred == calc.fn = "infer" /\ calc.pc = "done"

NameHas(str) == Contains(lower(FullName(calc.filename)), Word(str))

Keywords(k) == ACTIVITY_PATTERNS[k].patterns

FirstRule(k) ==
    /\ \E str \in Keywords(k) : NameHas(str)
    /\ \A j \in 1..(k - 1) : \A str \in Keywords(j) : ~NameHas(str)

(* C32: infer_activity_type answers the label of the first rule of the     *)
(* table one of whose keywords is in the lower-cased filename, and         *)
(* "Unknown" when no rule has one.  So a name with "walk" and "run" that   *)
(* has no keyword of the two rules before Walking is Walking, and a name   *)
(* with "run" and "bik" that has no keyword of the three rules before      *)
(* Running is Running.                                                     *)
C32_FirstRuleWins ==
    Inferred =>
        /\ \A k \in 1..Len(ACTIVITY_PATTERNS) :
               FirstRule(k) => calc.activity_type = ACTIVITY_PATTERNS[k].activity_type
        /\ (\A k \in 1..Len(ACTIVITY_PATTERNS) : \A str \in Keywords(k) : ~NameHas(str))
               => calc.activity_type = "Unknown"
        /\ (NameHas("walk") /\ NameHas("run") /\ ~NameHas("mountain bike")
              /\ ~NameHas("mountain biking") /\ ~NameHas("downhill skiing"))
               => calc.activity_type = "Walking"
        /\ (NameHas("run") /\ NameHas("bik") /\ ~NameHas("walk")
              /\ ~NameHas("mountain bike") /\ ~NameHas("mountain biking")
              /\ ~NameHas("downhill skiing"))
               => calc.activity_type = "Running"

C32_Witness ==
    /\ Inferred
    /\ NameHas("run") /\ NameHas("bik") /\ ~NameHas("walk") /\ ~NameHas("mountain bike")
    /\ calc.filename.stem # lower(calc.filename.stem)
    /\ calc.activity_type = "Running"

(* C33: a filename with "skiing" or "downhill" in it but not the phrase    *)
(* "downhill skiing" is classified "Downhill Skiing".                      *)
C33_SkiingAlone ==
    (/\ Inferred
     /\ \/ Contains(lower(FullName(calc.filename)), <<"s", "k", "i", "i", "n", "g">>)
        \/ Contains(lower(FullName(calc.filename)), lower(Upper("downhill")))
     /\ ~NameHas("downhill skiing"))
        => calc.activity_type = "Downhill Skiing"

parsed == calc.fn = "parse" /\ calc.pc = "stored"
NPoints == Len(calc.points)
Stamps == SelectSeq(calc.points, LAMBDA pt : pt.time # NoTime)
AllStamped == Len(Stamps) = NPoints
SomePositiveDuration ==
    \E i \in 1..(Len(Stamps) - 1) : Stamps[i + 1].time > Stamps[i].time
FullSpeeds == calc.gpx_data.segment_speeds

(* C17 as stated: for every parsed track with N >= 2 coordinates the       *)
(* segment_speeds have length N-1 and the stored segment_speeds length     *)
(* len(stored coordinates) - 1, with or without timestamps.                *)
C17_Original ==
    (parsed /\ NPoints >= 2)
    => /\ Len(FullSpeeds) = NPoints - 1
       /\ calc.segment_speeds.present
       /\ Len(calc.segment_speeds.val) = Len(calc.coordinates) - 1

(* C17, amended: for a parsed track with N >= 2 coordinates, when every    *)
(* point has a timestamp and some segment has a positive duration the      *)
(* segment_speeds have length N-1 and the stored segment_speeds length     *)
(* len(stored coordinates) - 1; when fewer than two points have a          *)
(* timestamp or no segment has a positive duration the segment_speeds are  *)
(* empty and none are stored.  No other track with N >= 2 is parsed.       *)
C17_SpeedsLength ==
    (parsed /\ NPoints >= 2)
    => /\ (AllStamped /\ SomePositiveDuration)
            => /\ Len(FullSpeeds) = NPoints - 1
               /\ calc.segment_speeds.present
               /\ Len(calc.segment_speeds.val) = Len(calc.coordinates) - 1
       /\ (Len(Stamps) < 2 \/ ~SomePositiveDuration)
            => /\ FullSpeeds = <<>>
               /\ calc.segment_speeds = Null
       /\ AllStamped \/ Len(Stamps) < 2 \/ ~SomePositiveDuration

(* A track of four timestamped points, one segment of which has no         *)
(* duration, was stored with three speeds reduced to one.                  *)
C17_Witness ==
    /\ parsed /\ NPoints = 4 /\ AllStamped
    /\ \E i \in 1..3 : calc.points[i].time = calc.points[i + 1].time
    /\ Len(FullSpeeds) = 3 /\ \E i \in 1..3 : FullSpeeds[i] > 0
    /\ calc.segment_speeds.present /\ Len(calc.segment_speeds.val) = 1
    /\ Len(calc.coordinates) = 2

(* C18: for every track with N >= 1 decoded coordinates the stored         *)
(* coordinates are the points at the original indices 0, 2, 4, ... and     *)
(* there are ceil(N/2) = (N+1) div 2 of them.                              *)
C18_EveryOtherPoint ==
    (parsed /\ NPoints >= 1)
    => /\ Len(calc.coordinates) = (NPoints + 1) \div 2
       /\ \A i \in 1..Len(calc.coordinates) :
             calc.coordinates[i] = calc.points[2 * i - 1].lon
       /\ \A k \in 1..NPoints :
             k % 2 = 1 => calc.coordinates[(k + 1) \div 2] = calc.points[k].lon

(* A track of three points, the second away from the others, was stored   *)
(* as its first and third point.                                           *)
C18_Witness ==
    /\ parsed /\ NPoints = 3
    /\ calc.points[1].lon = 0 /\ calc.points[2].lon = 1 /\ calc.points[3].lon = 0
    /\ calc.coordinates = <<0, 0>>

(***************************************************************************)
(* Two users and every route (SpecIso).                                    *)
(***************************************************************************)
iso == req[IsoReq]

MapKinds == {"update_map", "delete_map", "upload", "list_tracks", "geometry",
             "update_tracks", "update_track", "delete_tracks"}

(* The maps and tracks of the caller when the call started. *)
MyMaps == {m \in obs.maps : m.user_id = iso.user}
MyTracks == {t \in obs.tracks : t.user_id = iso.user /\ t.map_id = iso.map_id}

(* The map of the call is not a map of the caller: it is a map of another  *)
(* user, or there is no map of that id.                                    *)
ForeignMap == \E m \in obs.maps : m.id = iso.map_id /\ m.user_id # iso.user
AbsentMap == \A m \in obs.maps : m.id # iso.map_id

ForeignTrack(id) == \E t \in obs.tracks : t.id = id /\ t.user_id # iso.user
AbsentTrack(id) == \A t \in obs.tracks : t.id # id

Answer(status, detail) == [NoResp EXCEPT !.status = status, !.detail = detail]

(* C11: what a user is answered about a map or a track of another user is  *)
(* what the same user is answered when there is no such map or track.  A   *)
(* call on a map of another user and a call on a map id that is not in     *)
(* use both get "Map not found" (or, for delete_map by a user with one     *)
(* map, "Cannot delete the last map"); in a map of the caller, the id of   *)
(* a track of another user and an id that is not in use both get "Track    *)
(* not found" from update_track, and neither counts for a bulk update, a   *)
(* delete or a geometry lookup, whose answers are those for the caller's   *)
(* own tracks among the ids.                                               *)
C11_NoExistenceLeak ==
    (iso.pc = "done" /\ iso.kind \in MapKinds)
    => /\ (ForeignMap \/ AbsentMap)
          => iso.resp = IF iso.kind = "delete_map" /\ Cardinality(MyMaps) <= 1
                        THEN Answer(400, "Cannot delete the last map")
                        ELSE Answer(404, "Map not found")
       /\ (/\ ~(ForeignMap \/ AbsentMap)
           /\ iso.kind = "update_track"
           /\ ForeignTrack(iso.track_id) \/ AbsentTrack(iso.track_id))
          => iso.resp = Answer(404, "Track not found")
       /\ ~(ForeignMap \/ AbsentMap)
          => LET mine == {t \in MyTracks : t.id \in iso.ids}
             IN  /\ iso.kind = "update_tracks"
                    => iso.resp = [Answer(200, "") EXCEPT !.updated = Cardinality(mine)]
                 /\ iso.kind = "delete_tracks"
                    => iso.resp = [Answer(200, "") EXCEPT !.deleted = Cardinality(mine)]
                 /\ iso.kind = "geometry"
                    => /\ iso.resp.status = 200
                       /\ {g.track_id : g \in iso.resp.rows} = {t.id : t \in mine}

(* A user with two maps has asked to delete the map of another user, which *)
(* holds a track, and has been told that there is no such map.             *)
C11_Witness ==
    /\ iso.pc = "done" /\ iso.kind = "delete_map"
    /\ iso.resp.status = 404
    /\ ForeignMap
    /\ \E t \in tracks : t.map_id = iso.map_id /\ t.user_id # iso.user

(***************************************************************************)
(* Concurrent requests (Spec).                                             *)
(***************************************************************************)
(* C4: every committed Track row has its blob, in every state of every     *)
(* interleaving of uploads and deletes of a user.                          *)
C4_CommittedRowsHaveBlob ==
    \A t \in tracks : gpx_dir[<<t.user_id, t.hash>>] # NoBlob

(* Two uploads of one content to one map have both passed the lookup, and  *)
(* o has inserted its row x since.                                         *)
Racing(r, o, x) ==
    /\ req[r].pc = "U_store" /\ req[r].existing = 0
    /\ req[o].pc = "U_commit"
    /\ req[o].map_id = req[r].map_id /\ req[o].hash = req[r].hash
    /\ x.id = req[o].new_id /\ x.map_id = req[o].map_id /\ x.hash = req[o].hash

(* C5: when two uploads of one content to one map have both passed the     *)
(* lookup before either inserted, the one row that the first insert made   *)
(* is the row of that map and hash from then on: no step of the two takes  *)
(* it away and none adds a second one.                                     *)
C5_OneRowAfterRace ==
    [][\A r, o \in Reqs : \A x \in wtracks :
         Racing(r, o, x) => RowsOf(wtracks', x.map_id, x.hash) = {x}]_vars

(* C6: an upload whose insert meets the row of a concurrent upload of the  *)
(* same content is answered as a duplicate: the id of that row is added to *)
(* track_ids, nothing is counted as failed and no error is reported.       *)
C6_ConflictIsDuplicate ==
    \A r \in Reqs : \A x \in wtracks :
        (/\ req[r].pc = "U_store" /\ req[r].existing = 0
         /\ ~ParseFails(req[r].cur.content)
         /\ x.map_id = req[r].map_id /\ x.hash = req[r].hash)
        => LET answer == IntegrityErrorAnswer(req[r]).resp
           IN  /\ answer.track_ids = Append(req[r].resp.track_ids, x.id)
               /\ answer.failed = req[r].resp.failed
               /\ answer.errors = req[r].resp.errors

(* C8: a user who has a map has a map in every later state. *)
C8_AlwaysOneMap ==
    [][\A u \in Users :
         (\E m \in maps : m.user_id = u) => (\E m \in maps' : m.user_id = u)]_vars


=============================================================================
